---- MODULE Spec2Model ----
(***************************************************************************)
(* Model of the incremental synchronisation core of fieldclimate-collector: *)
(* the measurement store (database/db_manager.py, database/models.py), the  *)
(* station registry and its sync loop (collector/station_manager.py) and    *)
(* the date helpers (utils/helpers.py).                                      *)
(*                                                                         *)
(* Time is counted in hours.  A timestamp STRING is a record                *)
(* [wall, tz] with tz one of "naive", "Z", "+00:00", "+01:00"; a DATETIME   *)
(* object is a record [wall, aware, off] (off = UTC offset in hours).       *)
(***************************************************************************)
EXTENDS Integers, Sequences, FiniteSets, Bags, TLC

VARIABLES
    stations,      \* table stations: id -> [present, enabled, last_updated]
    sensors,       \* table sensors: sequence of rows [id, station_id] in rowid order
    measurements,  \* table measurements: bag of rows [sensor_id, timestamp, value]
    provider,      \* the telemetry provider: sensor id -> set of raw points it holds
    now,           \* reading of the wall clock (datetime.now()), in hours
    lastCall       \* what the most recent operation was given, did and returned

vars == <<stations, sensors, measurements, provider, now, lastCall>>

----------------------------------------------------------------------------
(* Bounds of the model *)

\* the clock advances at most this many hours past its first reading
MaxTicks == 1

\* the provider holds at most this many points in all
MaxPoints == 2

\* at most this many things go wrong during one run
MaxFaults == 1

\* a direct add_measurements call passes at most this many rows
MaxBatch == 2

\* a response body given to _process_sensor_data directly has at most this
\* many points
MaxResponse == 2

(* Program constants *)

\* StationManager.__init__(backfill_days=7)
backfill_days == 7

\* first reading of the clock: late enough that now - backfill_days is positive
T0 == backfill_days * 24 + 4

StationIds == {"st1", "st2", "st3"}

\* the order in which stations are listed (configuration file, SELECT)
StationOrder == <<"st1", "st2", "st3">>
SensorIds == {"a", "b", "c"}

\* the stations of the configuration file
ConfiguredStations == {"st1"}

\* the sensors the provider lists for a station (GET station/<id>/sensors)
ApiSensors(station_id) ==
    IF station_id = "st1" THEN <<"a", "b">> ELSE <<"c">>

----------------------------------------------------------------------------
(* utils/helpers.py: datetimes *)

NoString == [wall |-> 0, tz |-> "null"]          \* Python None in a TEXT column

TzOffset(tz) == IF tz = "+01:00" THEN 1 ELSE 0

\* dateutil.parser.parse + "assume UTC if no offset"
parse_datetime(s) ==
    [wall |-> s.wall, aware |-> TRUE, off |-> TzOffset(s.tz)]

\* datetime.isoformat()
isoformat(dt) ==
    [wall |-> dt.wall,
     tz |-> IF ~dt.aware THEN "naive"
            ELSE IF dt.off = 0 THEN "+00:00" ELSE "+01:00"]

\* helpers.format_datetime: a naive datetime is tagged UTC, then isoformat
format_datetime(dt) ==
    isoformat([wall |-> dt.wall, aware |-> TRUE,
               off |-> IF dt.aware THEN dt.off ELSE 0])

\* datetime - timedelta(hours = h)
MinusHours(dt, h) == [dt EXCEPT !.wall = dt.wall - h]

\* datetime.now(): a naive datetime
NaiveNow(t) == [wall |-> t, aware |-> FALSE, off |-> 0]

\* the instant (UTC hours) an aware datetime denotes
Instant(dt) == dt.wall - dt.off

\* the instant a timestamp string denotes
StringInstant(s) == Instant(parse_datetime(s))

----------------------------------------------------------------------------
(* database/db_manager.py: the measurement store *)

Triple(m) == <<m.sensor_id, m.timestamp, m.value>>

SensorExists(sensorTable, sensor_id) ==
    \E i \in 1..Len(sensorTable) : sensorTable[i].id = sensor_id

\* idx_measurements_unique: does a row with this triple exist
HasTriple(rows, m) ==
    \E r \in BagToSet(rows) : Triple(r) = Triple(m)

\* one INSERT without the unique index: the row is always added
InsertAlways(rows, m) == rows (+) SetToBag({m})

\* one INSERT OR IGNORE under the unique index on (sensor_id, timestamp, value)
InsertOrIgnore(rows, m) ==
    IF HasTriple(rows, m) THEN rows ELSE rows (+) SetToBag({m})

\* a rowcount that counts every statement run, ignored or not
ChangesAttempted(before, after) == 1

\* sqlite3_changes(): the number of rows the last statement inserted
Changes(before, after) == BagCardinality(after) - BagCardinality(before)

\* executemany: the statement is run for each row of the batch in turn;
\* rowcount sums the rows each run changed.
RECURSIVE ExecuteMany(_, _, _)
ExecuteMany(rows, batch, count) ==
    IF batch = <<>> THEN [rows |-> rows, count |-> count, raised |-> FALSE]
    ELSE ExecuteMany(InsertOrIgnore(rows, Head(batch)), Tail(batch),
                     count + Changes(rows, InsertOrIgnore(rows, Head(batch))))

\* the row of the batch at which executemany raises sqlite3.Error (0: at
\* none): the first row that names no sensor (foreign key), and the last row
\* when the storage layer fails during the operation
FailsAt(sensorTable, batch, fail) ==
    LET orphans == {i \in 1..Len(batch) : ~SensorExists(sensorTable, batch[i].sensor_id)}
    IN  IF orphans # {} THEN CHOOSE i \in orphans : \A j \in orphans : i <= j
        ELSE IF fail THEN Len(batch)
        ELSE 0

\* a connection that keeps what was written before the block raised
_get_connectionKeepsWrites(rows, done) ==
    IF done.raised THEN [done EXCEPT !.count = 0] ELSE done

\* "with self._get_connection() as conn": `rows` is the table when the
\* connection was opened, `done` what the block did in its transaction.  The
\* transaction is committed when the block returned; when it raised, the
\* connection is rolled back or closed with the transaction open, and the
\* writes of the block are gone
_get_connection(rows, done) ==
    IF done.raised THEN [rows |-> rows, count |-> 0, raised |-> TRUE] ELSE done

\* DatabaseManager.add_measurements.  fail: the storage layer raises
\* sqlite3.Error during the operation.  A foreign-key violation raises too.
\* The rows before the one that raises are written in the transaction.
add_measurements(rows, sensorTable, batch, fail) ==
    IF batch = <<>> THEN [rows |-> rows, count |-> 0, raised |-> FALSE]
    ELSE \* bound once
         LET at == FailsAt(sensorTable, batch, fail)
         IN  _get_connection(rows,
                 IF at = 0 THEN ExecuteMany(rows, batch, 0)
                 ELSE [ExecuteMany(rows, SubSeq(batch, 1, at - 1), 0)
                          EXCEPT !.raised = TRUE])

----------------------------------------------------------------------------
(* The JSON points of a sensor-data response *)

\* a JSON field holding a timestamp: absent, "", a timestamp string, or a
\* string dateutil cannot parse
Absent == [k |-> "absent", s |-> NoString]
Empty == [k |-> "empty", s |-> NoString]
Unparsable == [k |-> "bad", s |-> NoString]
Str(wall, tz) == [k |-> "str", s |-> [wall |-> wall, tz |-> tz]]

\* a JSON value: absent or null (point.get("value") gives None for both), a
\* number, a numeric string, or a string float() rejects
NoValue == [k |-> "absent", n |-> 0]
NotANumber == [k |-> "bad", n |-> 0]
Num(n) == [k |-> "num", n |-> n]
NumStr(n) == [k |-> "numstr", n |-> n]

Point(date_utc, date, value) ==
    [date_utc |-> date_utc, date |-> date, value |-> value]

\* Python truthiness of a string-or-None field
Truthy(field) == field.k \in {"str", "bad"}

\* point.get("date_utc") or point.get("date")
PointTimestamp(point) ==
    IF Truthy(point.date_utc) THEN point.date_utc ELSE point.date

\* a test for a missing value that also takes the number 0 for missing
ValueIsFalsy(point) ==
    point.value.k = "absent" \/ (point.value.k = "num" /\ point.value.n = 0)

\* point.get("value") is None
ValueIsNone(point) == point.value.k = "absent"

\* the per-point try block of _process_sensor_data: does the point yield a
\* measurement (neither skipped by a `continue` nor by a caught exception)
YieldsMeasurement(point) ==
    /\ Truthy(PointTimestamp(point))
    /\ ~ValueIsNone(point)
    /\ PointTimestamp(point).k = "str"       \* parse_datetime does not raise
    /\ point.value.k # "bad"                 \* float(value) does not raise

\* the measurement record built from a point that yields one
MeasurementOf(sensor_id, point) ==
    [sensor_id |-> sensor_id,
     timestamp |-> isoformat(parse_datetime(PointTimestamp(point).s)),
     value |-> point.value.n]

\* the loop over data_points: the measurements list, in response order
RECURSIVE BuildMeasurements(_, _)
BuildMeasurements(sensor_id, points) ==
    IF points = <<>> THEN <<>>
    ELSE IF YieldsMeasurement(Head(points))
         THEN <<MeasurementOf(sensor_id, Head(points))>>
              \o BuildMeasurements(sensor_id, Tail(points))
         ELSE BuildMeasurements(sensor_id, Tail(points))

----------------------------------------------------------------------------
(* collector/station_manager.py: _process_sensor_data *)

\* DatabaseManager.update_station_last_updated: UPDATE ... WHERE id = ?
update_station_last_updated(stationTable, station_id, timestamp) ==
    IF stationTable[station_id].present
    THEN [stationTable EXCEPT ![station_id].last_updated = timestamp]
    ELSE stationTable

\* a watermark taken from the first measurement of the list
WatermarkOfFirst(batch) == batch[1].timestamp

\* the watermark written after a batch: the LAST measurement of the list
WatermarkOf(batch) == batch[Len(batch)].timestamp

\* the count _process_sensor_data returns for a stored batch
ReturnedCount(batch, inserted) == Len(batch)

\* a tail of _process_sensor_data that writes the watermark whatever
\* add_measurements did
StoreBatchWatermarkAnyway(stationTable, station_id, rows, batch, added, dbfail) ==
    IF batch = <<>>
    THEN [stations |-> stationTable, rows |-> rows, count |-> 0, raised |-> FALSE]
    ELSE [stations |-> update_station_last_updated(
                           stationTable, station_id, WatermarkOf(batch)),
          rows |-> added.rows,
          count |-> IF added.raised THEN 0 ELSE ReturnedCount(batch, added.count),
          raised |-> added.raised]

\* "Store measurements in database" and "Update last_updated for station":
\* batch is the measurements list, added what add_measurements(batch) did
StoreBatch(stationTable, station_id, rows, batch, added, dbfail) ==
    IF batch = <<>>
    THEN [stations |-> stationTable, rows |-> rows, count |-> 0, raised |-> FALSE]
    ELSE IF added.raised
    THEN [stations |-> stationTable, rows |-> rows, count |-> 0, raised |-> TRUE]
    ELSE IF dbfail = "update"
    THEN [stations |-> stationTable, rows |-> added.rows, count |-> 0, raised |-> TRUE]
    ELSE [stations |-> update_station_last_updated(
                           stationTable, station_id, WatermarkOf(batch)),
          rows |-> added.rows,
          count |-> ReturnedCount(batch, added.count),
          raised |-> FALSE]

\* data: [isDict, points]; dbfail: "none", "add" (add_measurements raises) or
\* "update" (update_station_last_updated raises).
\* Result: the tables after the call, the returned count, whether it raised.
_process_sensor_data(stationTable, sensorTable, rows, station_id, sensor_id, data, dbfail) ==
    IF ~data.isDict \/ data.points = <<>>
    THEN [stations |-> stationTable, rows |-> rows, count |-> 0, raised |-> FALSE]
    ELSE StoreBatch(stationTable, station_id, rows,
                    BuildMeasurements(sensor_id, data.points),
                    add_measurements(rows, sensorTable,
                                     BuildMeasurements(sensor_id, data.points),
                                     dbfail = "add"),
                    dbfail)

----------------------------------------------------------------------------
(* The provider's API: GET station/<id>/sensor/<id>/data?date_from&date_to *)

\* the well-formed points the provider may hold for a sensor
\* V1: UTC field without offset, value 0, two hours old at T0
\* V2: no UTC field, local field with offset +01:00, numeric string, at T0
V1 == Point(Str(T0 - 2, "naive"), Absent, Num(0))
V2 == Point(Empty, Str(T0 + 1, "+01:00"), NumStr(1))
Catalogue == {V1, V2}

\* malformed points
JNoTimestamp == Point(Absent, Empty, Num(1))
JNoValue == Point(Str(T0, "naive"), Absent, NoValue)
JBadTimestamp == Point(Unparsable, Str(T0, "naive"), Num(1))
JBadValue == Point(Str(T0, "naive"), Absent, NotANumber)
Junk == {JNoTimestamp, JNoValue, JBadTimestamp, JBadValue}

\* the instant of a well-formed point
PointInstant(point) == StringInstant(PointTimestamp(point).s)

\* the points of a sensor the provider holds inside [date_from, date_to]
InWindow(held, date_from, date_to) ==
    {p \in held : /\ StringInstant(date_from) <= PointInstant(p)
                  /\ PointInstant(p) <= StringInstant(date_to)}

RECURSIVE Perms(_)
Perms(S) ==
    IF S = {} THEN {<<>>}
    ELSE UNION {{<<x>> \o q : q \in Perms(S \ {x})} : x \in S}

\* the point lists a successful fetch may return: the held points of the
\* window in any order, possibly followed by a record without a value
PointLists(held, date_from, date_to) ==
    LET ps == Perms(InWindow(held, date_from, date_to))
    IN  ps \cup {Append(q, JNoValue) : q \in ps}

\* what one get_sensor_data call does: raise, or return a body
\* (error: the exception class raised, "none" if the call returns)
FetchRaises(error) ==
    [ok |-> FALSE, error |-> error, data |-> [isDict |-> TRUE, points |-> <<>>]]
FetchError == FetchRaises("APIError")
FetchOk(points) ==
    [ok |-> TRUE, error |-> "none", data |-> [isDict |-> TRUE, points |-> points]]

Fetches(held, date_from, date_to) ==
    {FetchError} \cup {FetchOk(ps) : ps \in PointLists(held, date_from, date_to)}

DbFails == {"none", "add", "update"}

----------------------------------------------------------------------------
(* collector/station_manager.py: sync_station_data *)

NoDate == [given |-> FALSE, dt |-> NaiveNow(0)]
Given(dt) == [given |-> TRUE, dt |-> dt]

\* a window start that lets the stored watermark win over the caller's start
WindowStartWatermarkFirst(station, start_date, clock) ==
    IF station.last_updated # NoString
    THEN MinusHours(parse_datetime(station.last_updated), 1)
    ELSE IF start_date.given THEN start_date.dt
    ELSE MinusHours(NaiveNow(clock), backfill_days * 24)

\* "Determine time range": the start of the fetch window
WindowStart(station, start_date, clock) ==
    IF start_date.given THEN start_date.dt
    ELSE IF station.last_updated # NoString
         THEN MinusHours(parse_datetime(station.last_updated), 1)
         ELSE MinusHours(NaiveNow(clock), backfill_days * 24)

\* the end of the fetch window
WindowEnd(end_date, clock) ==
    IF end_date.given THEN end_date.dt ELSE NaiveNow(clock)

\* SELECT * FROM sensors WHERE station_id = ?, in rowid order
get_sensors_for_station(sensorTable, station_id) ==
    SelectSeq(sensorTable, LAMBDA row : row.station_id = station_id)

\* the request get_sensor_data sends for a window
Request(station_id, sensor_id, start_dt, end_dt) ==
    [station_id |-> station_id, sensor_id |-> sensor_id,
     date_from |-> format_datetime(start_dt), date_to |-> format_datetime(end_dt)]

\* one get_sensor_data call followed by _process_sensor_data, as the try
\* blocks of sync_station_data and _backfill_sensor_data run them: a raise of
\* either is caught.  e: [fetch, dbfail]
FetchAndProcess(stationTable, sensorTable, rows, station_id, sensor_id, e) ==
    IF e.fetch.ok
    THEN _process_sensor_data(stationTable, sensorTable, rows,
                              station_id, sensor_id, e.fetch.data, e.dbfail)
    ELSE [stations |-> stationTable, rows |-> rows, count |-> 0, raised |-> TRUE]

\* results[sensor_id] = count, or 0 in the except branch
Recorded(acc, sensor_id, req, done) ==
    [stations |-> done.stations,
     rows |-> done.rows,
     results |-> Append(acc.results,
                        [sensor_id |-> sensor_id,
                         count |-> IF done.raised THEN 0 ELSE done.count]),
     requests |-> Append(acc.requests, req)]

\* a loop over the sensors that ends at the first sensor that fails
RECURSIVE SyncSensorsAbort(_, _, _, _, _, _, _)
SyncSensorsAbort(acc, sensorTable, todo, station_id, start_dt, end_dt, env) ==
    IF todo = <<>> THEN acc
    ELSE LET done == FetchAndProcess(acc.stations, sensorTable, acc.rows,
                                     station_id, Head(todo).id, env[Head(todo).id])
             next == Recorded(acc, Head(todo).id,
                              Request(station_id, Head(todo).id, start_dt, end_dt), done)
         IN  IF done.raised THEN next
             ELSE SyncSensorsAbort(next, sensorTable, Tail(todo), station_id,
                                   start_dt, end_dt, env)

\* "Process each sensor": the loop body for the sensors still to do.
\* acc: [stations, rows, results, requests]; env: sensor id -> [fetch, dbfail]
RECURSIVE SyncSensors(_, _, _, _, _, _, _)
SyncSensors(acc, sensorTable, todo, station_id, start_dt, end_dt, env) ==
    IF todo = <<>> THEN acc
    ELSE SyncSensors(
             Recorded(acc, Head(todo).id,
                      Request(station_id, Head(todo).id, start_dt, end_dt),
                      FetchAndProcess(acc.stations, sensorTable, acc.rows,
                                      station_id, Head(todo).id, env[Head(todo).id])),
             sensorTable, Tail(todo), station_id, start_dt, end_dt, env)

\* a sync that does not look at the enabled flag
sync_station_data_any(stationTable, sensorTable, rows, station_id, start_date, end_date, clock, env) ==
    IF ~stationTable[station_id].present
          \/ get_sensors_for_station(sensorTable, station_id) = <<>>
    THEN [stations |-> stationTable, rows |-> rows, results |-> <<>>, requests |-> <<>>]
    ELSE SyncSensors([stations |-> stationTable, rows |-> rows,
                      results |-> <<>>, requests |-> <<>>],
                     sensorTable, get_sensors_for_station(sensorTable, station_id),
                     station_id,
                     WindowStart(stationTable[station_id], start_date, clock),
                     WindowEnd(end_date, clock), env)

\* sync_station_data(station_id, start_date, end_date) at clock reading
\* `clock`; env gives, per sensor, what the fetch and the store do.
sync_station_data(stationTable, sensorTable, rows, station_id, start_date, end_date, clock, env) ==
    LET station == stationTable[station_id]
        start_dt == WindowStart(station, start_date, clock)
        end_dt == WindowEnd(end_date, clock)
        mine == get_sensors_for_station(sensorTable, station_id)
        nothing == [stations |-> stationTable, rows |-> rows,
                    results |-> <<>>, requests |-> <<>>]
    IN  IF ~station.present THEN nothing
        ELSE IF ~station.enabled THEN nothing
        ELSE IF mine = <<>> THEN nothing
        ELSE SyncSensors(nothing, sensorTable, mine, station_id, start_dt, end_dt, env)

----------------------------------------------------------------------------
(* database/models.py: json_serializer, json_deserializer;
   database/db_manager.py: add_station, get_station, add_sensor *)

\* a Python value: its type and its str() (for a str, its characters)
Py(t, r) == [t |-> t, r |-> r]

None == Py("NoneType", "None")

\* bool(obj)
bool(obj) ==
    CASE obj.t = "NoneType" -> FALSE
      [] obj.t = "bool" -> obj.r = "True"
      [] obj.t = "int" -> obj.r # "0"
      [] obj.t = "str" -> obj.r # ""
      [] OTHER -> obj.r \notin {"{}", "[]"}

\* the detail record of a station as the API returns it
station_details == Py("dict", "{'name': 'S', 'position': {'latitude': 47.1}}")

\* json.dumps of a dict or a list: keys become strings, separators are
\* ", " and ": "
json_dumps(obj) ==
    CASE obj.r = "{'name': 'S', 'position': {'latitude': 47.1}}"
             -> "{\"name\": \"S\", \"position\": {\"latitude\": 47.1}}"
      [] obj.r = "{'a': 1}" -> "{\"a\": 1}"
      [] obj.r = "{1: 'a'}" -> "{\"1\": \"a\"}"
      [] obj.r = "{'1': 'a'}" -> "{\"1\": \"a\"}"
      [] obj.r = "[1, 2]" -> "[1, 2]"
      [] OTHER -> obj.r

\* json_serializer: json.dumps for a dict or a list, str() for anything else
json_serializer(obj) ==
    IF obj.t \in {"dict", "list"} THEN json_dumps(obj) ELSE obj.r

JSONDecodeError == Py("JSONDecodeError", "")

\* json.loads
json_loads(text) ==
    CASE text = "{\"name\": \"S\", \"position\": {\"latitude\": 47.1}}" -> station_details
      [] text = "{\"a\": 1}" -> Py("dict", "{'a': 1}")
      [] text = "{\"a\":1}" -> Py("dict", "{'a': 1}")
      [] text = "{\"1\": \"a\"}" -> Py("dict", "{'1': 'a'}")
      [] text = "[1, 2]" -> Py("list", "[1, 2]")
      [] text = "{}" -> Py("dict", "{}")
      [] text = "[]" -> Py("list", "[]")
      [] text \in {"0", "1", "5"} -> Py("int", text)
      [] text = "null" -> None
      [] text = "true" -> Py("bool", "True")
      [] text = "false" -> Py("bool", "False")
      [] OTHER -> JSONDecodeError

\* json_deserializer: None for a falsy text, the text itself when it is no
\* JSON
json_deserializer(text) ==
    IF ~bool(text) THEN None
    ELSE IF json_loads(text.r) = JSONDecodeError THEN text
    ELSE json_loads(text.r)

\* the types sqlite3 binds as a parameter (float and bytes are not drawn)
Bindable(obj) == obj.t \in {"NoneType", "str", "int", "bool"}

\* the value of a TEXT column after obj was bound to it, as a SELECT
\* returns it: NULL stays None, an integer is stored as its decimal text
Bound(obj) ==
    CASE obj.t = "bool" -> Py("str", IF obj.r = "True" THEN "1" ELSE "0")
      [] obj.t = "int" -> Py("str", obj.r)
      [] OTHER -> obj

\* no row; the columns of a row are those of the stations table (latitude
\* stands for latitude, longitude and elevation, which are handled alike)
NoStation ==
    [present |-> FALSE, enabled |-> FALSE, last_updated |-> NoString,
     name |-> "", latitude |-> None, metadata |-> None]

\* station["metadata"] after "if 'metadata' in station and
\* station['metadata']: station['metadata'] = json_serializer(...)"
SerializedMetadata(station) ==
    IF bool(station.metadata)
    THEN Py("str", json_serializer(station.metadata))
    ELSE station.metadata

\* DatabaseManager.add_station raises DatabaseError: a parameter cannot be
\* bound
add_station_raises(station) == ~Bindable(SerializedMetadata(station))

\* an add_station that writes the columns of a new station whatever the
\* dict holds
add_stationFresh(stationTable, station) ==
    [stationTable EXCEPT ![station.id] =
        [present |-> TRUE, name |-> station.name, latitude |-> station.latitude,
         metadata |-> None, last_updated |-> NoString,
         enabled |-> station.enabled]]

\* DatabaseManager.add_station: INSERT OR REPLACE by primary key; nothing is
\* stored when it raises
add_station(stationTable, station) ==
    IF add_station_raises(station) THEN stationTable
    ELSE [stationTable EXCEPT ![station.id] =
             [present |-> TRUE, name |-> station.name,
              latitude |-> station.latitude,
              metadata |-> Bound(SerializedMetadata(station)),
              last_updated |-> station.last_updated,
              enabled |-> station.enabled]]

\* DatabaseManager.get_station, and an element of get_all_stations: the row
\* as a dict, a truthy metadata deserialized (found = FALSE for None)
get_station(stationTable, station_id) ==
    LET row == stationTable[station_id]
    IN  [found |-> row.present, id |-> station_id, name |-> row.name,
         latitude |-> row.latitude,
         metadata |-> IF bool(row.metadata)
                      THEN json_deserializer(row.metadata)
                      ELSE row.metadata,
         last_updated |-> row.last_updated, enabled |-> row.enabled]

\* a sensors table without foreign key
add_sensor_raisesNever(stationTable, station_id) == FALSE

\* DatabaseManager.add_sensor raises DatabaseError: the foreign key
\* sensors.station_id has no row in stations
add_sensor_raises(stationTable, station_id) ==
    station_id \notin StationIds \/ ~stationTable[station_id].present

\* DatabaseManager.add_sensor: INSERT OR REPLACE by primary key (the old row,
\* if any, is deleted and the new row gets a fresh rowid); nothing is stored
\* when it raises
add_sensor(stationTable, sensorTable, sensor_id, station_id) ==
    IF add_sensor_raises(stationTable, station_id) THEN sensorTable
    ELSE Append(SelectSeq(sensorTable, LAMBDA row : row.id # sensor_id),
                [id |-> sensor_id, station_id |-> station_id])

----------------------------------------------------------------------------
(* collector/station_manager.py: process_new_station and the backfill *)

\* the empty stations table
NoStations == [id \in StationIds |-> NoStation]

\* station_data of process_new_station: the configuration gives no name
station_data(station_id, enabled) ==
    [id |-> station_id, name |-> "S", latitude |-> Py("float", "47.1"),
     metadata |-> station_details, last_updated |-> NoString,
     enabled |-> enabled]

\* the tables after a backfill; its count is dropped
Backfilled(acc, req, done) ==
    [acc EXCEPT !.stations = done.stations, !.rows = done.rows,
                !.requests = Append(acc.requests, req)]

\* a _backfill_sensor_data that sends nothing
_backfill_sensor_dataSkipped(acc, sensorTable, station_id, sensor_id, clock, e) == acc

\* _backfill_sensor_data: one fetch of [now - backfill_days, now], ingested;
\* every failure is caught and logged
_backfill_sensor_data(acc, sensorTable, station_id, sensor_id, clock, e) ==
    IF backfill_days <= 0 THEN acc
    ELSE LET end_dt == NaiveNow(clock)
             start_dt == MinusHours(end_dt, backfill_days * 24)
         IN  Backfilled(acc, Request(station_id, sensor_id, start_dt, end_dt),
                        FetchAndProcess(acc.stations, sensorTable, acc.rows,
                                        station_id, sensor_id, e))

\* _discover_and_process_sensors: _process_sensor for each listed sensor
\* (add_sensor, then the backfill).  acc: [stations, sensors, rows, requests]
RECURSIVE ProcessSensors(_, _, _, _, _)
ProcessSensors(acc, todo, station_id, clock, env) ==
    IF todo = <<>> THEN acc
    ELSE LET sensor_id == Head(todo)
             table == add_sensor(acc.stations, acc.sensors, sensor_id, station_id)
             filled == _backfill_sensor_data([acc EXCEPT !.sensors = table], table,
                           station_id, sensor_id, clock, env[sensor_id])
         IN  ProcessSensors(filled, Tail(todo), station_id, clock, env)

\* process_new_station(station_config) when the API answers the detail and
\* sensor-list requests
process_new_station(stationTable, sensorTable, rows, station_id, enabled, clock, env) ==
    ProcessSensors(
        [stations |-> add_station(stationTable, station_data(station_id, enabled)),
         sensors |-> sensorTable, rows |-> rows, requests |-> <<>>],
        ApiSensors(station_id), station_id, clock, env)

----------------------------------------------------------------------------
(* collector/data_collector.py: run *)

\* sum(result.values())
SumCounts(results) ==
    LET RECURSIVE Sum(_)
        Sum(i) == IF i = 0 THEN 0 ELSE results[i].count + Sum(i - 1)
    IN  Sum(Len(results))

\* what can go wrong during one run: a fault is a record [at, id]
\*   list_existing   get_all_stations() of _initialize_stations raises
\*   list_enabled    get_all_stations(enabled_only=True) of run raises
\*   read_station    the store reads at the start of sync_station_data(id) raise
\*   details         get_station_details(id) raises
\*   list_sensors    discover_sensors(id) raises
\*   fetch_auth      get_sensor_data for sensor id raises APIAuthError
\*   store_add       add_measurements for sensor id raises
\*   store_update    update_station_last_updated after sensor id's batch raises
\*   optimize        optimize_after_collection is set and optimize_database raises
Fault(at, id) == [at |-> at, id |-> id]

Faults ==
    {Fault(at, "-") : at \in {"list_existing", "list_enabled", "optimize"}}
    \cup {Fault(at, id) : at \in {"read_station", "details", "list_sensors"},
                          id \in StationIds}
    \cup {Fault("fetch_auth", s) : s \in SensorIds}
    \cup {Fault(at, "a") : at \in {"store_add", "store_update"}}

\* ConfigManager.get_stations(): the ids of the stations configured and not
\* disabled.  config: station id -> "enabled", "disabled" or "absent"
get_stations(config) == SelectSeq(StationOrder, LAMBDA id : config[id] = "enabled")

\* get_all_stations(enabled_only=True)
get_all_stations_enabled(stationTable) ==
    SelectSeq(StationOrder,
              LAMBDA id : stationTable[id].present /\ stationTable[id].enabled)

\* the held points of a window, oldest first
Ascending(S) ==
    CHOOSE q \in Perms(S) :
        \A i, j \in 1..Len(q) : i < j => PointInstant(q[i]) <= PointInstant(q[j])

\* per sensor, what the fetch of [date_from, date_to] and the store do in a
\* run with these faults
EnvOf(faults, held, date_from, date_to) ==
    [s \in SensorIds |->
        [fetch |-> IF Fault("fetch_auth", s) \in faults THEN FetchRaises("APIAuthError")
                   ELSE FetchOk(Ascending(InWindow(held[s], date_from, date_to))),
         dbfail |-> IF Fault("store_add", s) \in faults THEN "add"
                    ELSE IF Fault("store_update", s) \in faults THEN "update"
                    ELSE "none"]]

\* the environment of a backfill at `clock`
BackfillEnv(faults, held, clock) ==
    EnvOf(faults, held,
          format_datetime(MinusHours(NaiveNow(clock), backfill_days * 24)),
          format_datetime(NaiveNow(clock)))

\* the environment of sync_station_data(id) without dates at `clock`
SyncEnv(faults, held, station, clock) ==
    EnvOf(faults, held, format_datetime(WindowStart(station, NoDate, clock)),
          format_datetime(WindowEnd(NoDate, clock)))

\* the tables r with its requests put after those sent before
AfterRequests(requests, r) == [r EXCEPT !.requests = requests \o @]

\* the body of the loop of _initialize_stations for one configured station.
\* acc: [stations, sensors, rows, requests]; existing: the stations table as
\* read before the loop
InitializeStation(acc, existing, id, clock, faults, held) ==
    IF ~existing[id].present
    THEN \* process_new_station; whatever it raises is caught and logged
         IF Fault("details", id) \in faults THEN acc
         ELSE IF Fault("list_sensors", id) \in faults
         THEN [acc EXCEPT !.stations = add_station(acc.stations, station_data(id, TRUE))]
         ELSE AfterRequests(acc.requests,
                  process_new_station(acc.stations, acc.sensors, acc.rows, id,
                                      TRUE, clock, BackfillEnv(faults, held, clock)))
    ELSE IF ~existing[id].enabled
    THEN \* add_station(existing) with enabled set
         [acc EXCEPT !.stations =
             add_station(acc.stations,
                         [get_station(existing, id) EXCEPT !.enabled = TRUE])]
    ELSE acc

RECURSIVE InitializeEach(_, _, _, _, _, _)
InitializeEach(acc, existing, todo, clock, faults, held) ==
    IF todo = <<>> THEN acc
    ELSE InitializeEach(InitializeStation(acc, existing, Head(todo), clock, faults, held),
                        existing, Tail(todo), clock, faults, held)

\* DataCollector._initialize_stations.  Returns [stations, sensors, rows,
\* requests, raised]
_initialize_stations(stationTable, sensorTable, rows, config, clock, faults, held) ==
    IF get_stations(config) = <<>>
    THEN [stations |-> stationTable, sensors |-> sensorTable, rows |-> rows,
          requests |-> <<>>, raised |-> FALSE]
    ELSE IF Fault("list_existing", "-") \in faults
    THEN [stations |-> stationTable, sensors |-> sensorTable, rows |-> rows,
          requests |-> <<>>, raised |-> TRUE]
    ELSE [raised |-> FALSE]
         @@ InitializeEach([stations |-> stationTable, sensors |-> sensorTable,
                            rows |-> rows, requests |-> <<>>],
                           stationTable, get_stations(config), clock, faults, held)

\* the statistics object of a run
NoStats ==
    [stations_processed |-> 0, stations_successful |-> 0, stations_failed |-> 0,
     sensors_processed |-> 0, measurements_added |-> 0, errors |-> <<>>]

\* an entry of stats["errors"]: "Station <name>: ...", "General: ..." or
\* "Database optimization: ..."
ErrorString(what, id) == [what |-> what, id |-> id]

\* an except branch that records the error without counting the failure
StationFailedUncounted(acc, id) ==
    [acc EXCEPT !.stats.stations_processed = @ + 1,
                !.stats.errors = Append(@, ErrorString("Station", id))]

\* the except branch of the per-station try block
StationFailed(acc, id) ==
    [acc EXCEPT !.stats.stations_processed = @ + 1,
                !.stats.stations_failed = @ + 1,
                !.stats.errors = Append(@, ErrorString("Station", id))]

\* the per-station try block when sync_station_data returned r
StationSynced(acc, id, r) ==
    [stations |-> r.stations,
     rows |-> r.rows,
     requests |-> acc.requests \o r.requests,
     synced |-> Append(acc.synced, id),
     stats |-> [acc.stats EXCEPT !.stations_processed = @ + 1,
                                 !.sensors_processed = @ + Len(r.results),
                                 !.measurements_added = @ + SumCounts(r.results),
                                 !.stations_successful = @ + 1]]

\* one pass of "for station in stations".  acc: [stations, rows, requests,
\* synced, stats]
SyncStation(acc, sensorTable, id, clock, faults, held) ==
    IF Fault("read_station", id) \in faults
    THEN StationFailed(acc, id)
    ELSE StationSynced(acc, id,
             sync_station_data(acc.stations, sensorTable, acc.rows, id, NoDate, NoDate,
                               clock, SyncEnv(faults, held, acc.stations[id], clock)))

\* a loop over the stations that ends at the first station whose sync raises
RECURSIVE SyncStationsAbort(_, _, _, _, _, _)
SyncStationsAbort(acc, sensorTable, todo, clock, faults, held) ==
    IF todo = <<>> THEN acc
    ELSE IF Fault("read_station", Head(todo)) \in faults
    THEN StationFailed(acc, Head(todo))
    ELSE SyncStationsAbort(SyncStation(acc, sensorTable, Head(todo), clock, faults, held),
                           sensorTable, Tail(todo), clock, faults, held)

\* "Process each station"
RECURSIVE SyncStations(_, _, _, _, _, _)
SyncStations(acc, sensorTable, todo, clock, faults, held) ==
    IF todo = <<>> THEN acc
    ELSE SyncStations(SyncStation(acc, sensorTable, Head(todo), clock, faults, held),
                      sensorTable, Tail(todo), clock, faults, held)

\* the outer except branch of run: "General: ..." is appended to the errors
\* collected so far
GeneralFailure(tables, stats, requests, synced) ==
    [stations |-> tables.stations, sensors |-> tables.sensors, rows |-> tables.rows,
     requests |-> requests, synced |-> synced, raised |-> FALSE,
     stats |-> [stats EXCEPT !.errors = Append(@, ErrorString("General", "-"))]]

\* the end of run after the loop over the stations: the optional
\* optimize_database, whose failure is recorded, and the return
Finished(sensorTable, looped, faults) ==
    [stations |-> looped.stations, sensors |-> sensorTable,
     rows |-> looped.rows, requests |-> looped.requests,
     synced |-> looped.synced, raised |-> FALSE,
     stats |-> IF Fault("optimize", "-") \in faults
               THEN [looped.stats EXCEPT !.errors =
                        Append(@, ErrorString("Database optimization", "-"))]
               ELSE looped.stats]

\* run after _initialize_stations returned or raised `init`
AfterInitialize(init, clock, faults, held) ==
    IF init.raised THEN GeneralFailure(init, NoStats, <<>>, <<>>)
    ELSE IF Fault("list_enabled", "-") \in faults
    THEN GeneralFailure(init, NoStats, init.requests, <<>>)
    ELSE Finished(init.sensors,
                  SyncStations([stations |-> init.stations, rows |-> init.rows,
                                requests |-> init.requests, synced |-> <<>>,
                                stats |-> NoStats],
                               init.sensors, get_all_stations_enabled(init.stations),
                               clock, faults, held),
                  faults)

\* a run that reads the list of the enabled stations before it initialises
\* its stations
runListedFirst(stationTable, sensorTable, rows, config, clock, faults, held) ==
    LET init == _initialize_stations(stationTable, sensorTable, rows, config,
                                     clock, faults, held)
    IN  IF init.raised \/ Fault("list_enabled", "-") \in faults
        THEN AfterInitialize(init, clock, faults, held)
        ELSE Finished(init.sensors,
                      SyncStations([stations |-> init.stations, rows |-> init.rows,
                                    requests |-> init.requests, synced |-> <<>>,
                                    stats |-> NoStats],
                                   init.sensors, get_all_stations_enabled(stationTable),
                                   clock, faults, held),
                      faults)

\* DataCollector.run().  Returns [stations, sensors, rows, requests, synced,
\* stats, raised]
run(stationTable, sensorTable, rows, config, clock, faults, held) ==
    AfterInitialize(_initialize_stations(stationTable, sensorTable, rows, config,
                                         clock, faults, held),
                    clock, faults, held)

----------------------------------------------------------------------------
(* utils/error_handler.py: retry_with_backoff;
   collector/api_client.py: FieldClimateClient._request *)

\* the exception classes of utils/error_handler.py: the classes an
\* "except cls" clause catches
Subclasses(cls) ==
    IF cls = "APIError"
    THEN {"APIError", "APIAuthError", "APIRateLimitError", "APIResponseError",
          "APITimeoutError"}
    ELSE {cls}

\* except tuple(exceptions)
Caught(error, exceptions) == \E cls \in exceptions : error \in Subclasses(cls)

\* the arguments of @retry_with_backoff on _request
request_max_retries == 3
request_initial_backoff == 5000
RequestExceptions == {"APIResponseError", "APITimeoutError"}

\* @retry_with_backoff(max_retries=3) on discover_stations,
\* get_station_details and discover_sensors, and the defaults it leaves in
\* place
manager_max_retries == 3
default_initial_backoff == 1000
default_backoff_factor == 2
DefaultExceptions == {"APIError", "DatabaseError"}

\* Retry(status_forcelist=...)
status_forcelist == {429, 500, 502, 503, 504}

\* a script of what the environment does, one entry per use; its last entry
\* repeats
At(script, pos) == script[IF pos <= Len(script) THEN pos ELSE Len(script)]

\* what the server or the network does to one HTTP exchange.  body is
\* "object" (a JSON object without error), "error" (a JSON object with a
\* truthy error), "falsy_error" (a JSON object whose error is empty), "list"
\* (a JSON array) or "not_json"
Status(code, body) == [kind |-> "status", status |-> code, body |-> body]
Transport(kind) == [kind |-> kind, status |-> 0, body |-> "not_json"]

\* the transport retry of the mounted adapter: an exchange that times out,
\* fails to connect or answers a status of the forcelist is made again until
\* `total` retries are used up
TransportRetried(answer) ==
    answer.kind # "status" \/ answer.status \in status_forcelist

\* the exception of requests when the retries are used up
Exhausted(answer) ==
    IF answer.kind = "status" THEN "RetryError"
    ELSE IF answer.kind = "connect_timeout" THEN "ConnectTimeout"
    ELSE "ConnectionError"

\* self.session.request(...): [answer, exception, next, hits]
RECURSIVE session_request(_, _, _, _)
session_request(answers, pos, used, total) ==
    IF ~TransportRetried(At(answers, pos))
    THEN [answer |-> At(answers, pos), exception |-> "none",
          next |-> pos + 1, hits |-> used + 1]
    ELSE IF used < total
    THEN session_request(answers, pos + 1, used + 1, total)
    ELSE [answer |-> At(answers, pos), exception |-> Exhausted(At(answers, pos)),
          next |-> pos + 1, hits |-> used + 1]

\* the inspection of the response and the except clauses of _request: the
\* class of the exception raised, or "none" when the parsed body is returned.
\* json_error_is_request_exception: response.json() raises a subclass of
\* RequestException on a body that is no JSON, as requests does from 2.27
\* on; before that it raises a plain ValueError, which no clause catches
Classify(t, json_error_is_request_exception) ==
    IF t.exception = "ConnectTimeout" THEN "APITimeoutError"
    ELSE IF t.exception # "none" THEN "APIError"
    ELSE IF t.answer.status = 429 THEN "APIRateLimitError"
    ELSE IF t.answer.status \in {401, 403} THEN "APIAuthError"
    ELSE IF t.answer.status >= 400 /\ t.answer.status < 600 THEN "APIError"
    ELSE IF t.answer.body = "not_json"
    THEN IF json_error_is_request_exception THEN "APIError" ELSE "ValueError"
    ELSE IF t.answer.body = "error" THEN "APIResponseError"
    ELSE "none"

\* a jitter outside [0.8, 1.2)
JitterWide(frac) == 500 + frac

\* jitter = 0.8 + 0.4 * (time.time() % 1), in thousandths; frac is the
\* fraction of the clock's second in thousandths
Jitter(frac) == 800 + (400 * frac) \div 1000

Layers == {"scripted", "request", "manager"}

\* FieldClimateClient.__init__: requests_per_hour = 7200
default_requests_per_hour == 7200

\* time.time() when a call starts, in milliseconds
Epoch == 1000000

\* the progress of a call: the positions in the scripts, the invocations of
\* the wrapped function by the wrapper of each layer, the exchanges with the
\* server, the sleeps of the wrappers and the calls of session.request with
\* their classification
NoProgress ==
    [pos |-> 1, tick |-> 1, invoked |-> [l \in Layers |-> 0], hits |-> 0,
     sleeps |-> <<>>, exchanges |-> <<>>, sends |-> <<>>, clock |-> Epoch,
     rate_limiter |-> [last_request_time |-> 0, request_count |-> 0]]

\* RateLimiter.__init__: request_interval = 3600.0 / requests_per_hour, in
\* milliseconds
request_interval(requests_per_hour) == 3600000 \div requests_per_hour

\* a wait that records the request without sleeping
waitWithoutSleep(limiter, clock, interval) ==
    [clock |-> clock,
     rate_limiter |-> [last_request_time |-> clock,
                       request_count |-> limiter.request_count + 1]]

\* RateLimiter.wait at time `clock`: sleeps for what is left of the interval
\* since last_request_time, then records the time and counts the request.
\* Returns the limiter and the time at which wait returns
wait(limiter, clock, interval) ==
    LET time_since_last == clock - limiter.last_request_time
        woken == IF time_since_last < interval
                 THEN clock + (interval - time_since_last)
                 ELSE clock
    IN  [clock |-> woken,
         rate_limiter |-> [last_request_time |-> woken,
                           request_count |-> limiter.request_count + 1]]

\* self.rate_limiter.wait() at the head of _request
Waited(env, st) ==
    LET w == wait(st.rate_limiter, st.clock, request_interval(env.requests_per_hour))
    IN  [st EXCEPT !.clock = w.clock, !.rate_limiter = w.rate_limiter]

\* the keys and the base URL of the client
public_key == "PUBLIC"
private_key == "PRIVATE"
base_url == "https://api.fieldclimate.com/v2"

\* method.upper()
upper(method) ==
    CASE method = "get" -> "GET"
      [] method = "post" -> "POST"
      [] OTHER -> method

\* endpoint.lstrip('/')
lstrip(endpoint) ==
    CASE endpoint = "/station/st1/sensors" -> "station/st1/sensors"
      [] endpoint = "//station/st1" -> "station/st1"
      [] OTHER -> endpoint

\* datetime.utcnow().strftime('%a, %d %b %Y %H:%M:%S GMT') at `clock`: the
\* second of the clock
date_stamp(clock) == ToString(clock \div 1000)

\* hmac.new(key, msg, hashlib.sha256).hexdigest(): equal for equal keys and
\* messages only
hmac_new(key, msg) == [key |-> key, msg |-> msg]

\* an authenticator that signs with the public key
FieldClimateAuthPublic(api_path, public, private, method, clock) ==
    [Date |-> date_stamp(clock),
     Authorization |->
         [scheme |-> "hmac", public_key |-> public,
          signature |-> hmac_new(public, upper(method) \o api_path
                                         \o date_stamp(clock) \o public)]]

\* FieldClimateAuth(api_path, public_key, private_key, method)(request) at
\* `clock`: the headers it sets
FieldClimateAuth(api_path, public, private, method, clock) ==
    [Date |-> date_stamp(clock),
     Authorization |->
         [scheme |-> "hmac", public_key |-> public,
          signature |-> hmac_new(private, upper(method) \o api_path
                                          \o date_stamp(clock) \o public)]]

\* helpers.generate_signature(method, path, timestamp, private_key, content)
generate_signature(method, path, timestamp, private, content) ==
    hmac_new(private, method \o path \o ToString(timestamp) \o content)

\* the time the adapter has slept, in milliseconds, before it sends the
\* request of one call of session.request for the k-th time: nothing before
\* the first retry, then backoff_factor * 2 ** (retries so far - 1) seconds,
\* with backoff_factor = 0.5
TransportSlept(k) == IF k <= 2 THEN 0 ELSE 500 * (2 ^ (k - 1) - 2)

\* the request of one call of _request as the adapter sends it `hits` times:
\* it is prepared, and signed, once, when session.request is called at
\* `clock`
Sends(env, clock, hits) ==
    [k \in 1..hits |->
        [method |-> upper(env.method),
         url |-> base_url \o "/" \o lstrip(env.endpoint),
         params |-> env.params,
         data |-> env.data,
         headers |-> FieldClimateAuth("/" \o lstrip(env.endpoint), public_key,
                                      private_key, upper(env.method), clock),
         transmission |-> k,
         sent |-> clock + TransportSlept(k) + (k - 1) * env.latency]]

\* the body of _request after the wait of the rate limiter: one call of
\* session.request, made at st.clock and lasting env.latency, and its
\* classification
RequestBody(env, st, t) ==
    [error |-> Classify(t, env.json_error_is_request_exception),
     body |-> t.answer.body,
     st |-> [st EXCEPT !.pos = t.next, !.hits = @ + t.hits,
                       !.clock = @ + TransportSlept(t.hits) + t.hits * env.latency,
                       !.sends = @ \o Sends(env, st.clock, t.hits),
                       !.exchanges = Append(@, [answer |-> t.answer,
                                           exception |-> t.exception,
                                           issued |-> st.clock,
                                           error |-> Classify(t,
                                               env.json_error_is_request_exception)])]]

\* what a call of a wrapped function does: it raises `error` or, with "none",
\* returns
Outcome(error) == [kind |-> "outcome", error |-> error]

\* a function that raises what its script says
ScriptedBody(env, st) ==
    [error |-> At(env.answers, st.pos).error, body |-> "object",
     st |-> [st EXCEPT !.pos = @ + 1]]

\* the sleep of the wrapper before the next attempt
Slept(layer, backoff, st, env) ==
    [st EXCEPT !.tick = @ + 1,
               !.clock = @ + (backoff * Jitter(At(env.fractions, st.tick))) \div 1000,
               !.sleeps = Append(@, [layer |-> layer, backoff |-> backoff,
                                     jitter |-> Jitter(At(env.fractions, st.tick)),
                                     sleep_time |-> backoff * Jitter(At(env.fractions,
                                                                        st.tick))])]

\* "if retries > max_retries" one retry early
ExceededEarly(retries, max_retries) == retries >= max_retries

\* retries += 1; if retries > max_retries: raise
Exceeded(retries, max_retries) == retries > max_retries

RECURSIVE wrapper(_, _, _, _, _, _, _, _)

\* func(*args, **kwargs) of the wrapper at `layer`: "scripted" is a function
\* that raises what the script says, "request" the body of _request,
\* "manager" the body of discover_stations, get_station_details or
\* discover_sensors, which calls the decorated _request
Invoke(layer, env, st) ==
    IF layer = "scripted" THEN ScriptedBody(env, st)
    ELSE IF layer = "request"
    THEN RequestBody(env, Waited(env, st),
                     session_request(env.answers, st.pos, 0, env.total))
    ELSE wrapper(request_max_retries, request_initial_backoff, default_backoff_factor,
                 RequestExceptions, "request", env, 0, st)

\* the wrapper of retry_with_backoff after `retries` failures; backoff in
\* milliseconds, sleep_time in microseconds.  Returns [error, body, st]
AfterAttempt(max_retries, backoff, backoff_factor, exceptions, layer, env, retries, r) ==
    IF r.error = "none" \/ ~Caught(r.error, exceptions)
       \/ Exceeded(retries + 1, max_retries)
    THEN r
    ELSE wrapper(max_retries, backoff * backoff_factor, backoff_factor, exceptions,
                 layer, env, retries + 1, Slept(layer, backoff, r.st, env))

wrapper(max_retries, backoff, backoff_factor, exceptions, layer, env, retries, st) ==
    AfterAttempt(max_retries, backoff, backoff_factor, exceptions, layer, env, retries,
                 Invoke(layer, env, [st EXCEPT !.invoked[layer] = @ + 1]))

\* retry_with_backoff(max_retries, initial_backoff, backoff_factor,
\* exceptions)(func)(...)
retry_with_backoff(max_retries, initial_backoff, backoff_factor, exceptions, layer, env) ==
    wrapper(max_retries, initial_backoff, backoff_factor, exceptions, layer, env, 0,
            NoProgress)

\* FieldClimateClient(max_retries=total)._request("GET", ...)
_request(env) ==
    retry_with_backoff(request_max_retries, request_initial_backoff,
                       default_backoff_factor, RequestExceptions, "request", env)

\* StationManager.discover_stations, get_station_details, discover_sensors
get_station_details(env) ==
    retry_with_backoff(manager_max_retries, default_initial_backoff,
                       default_backoff_factor, DefaultExceptions, "manager", env)

----------------------------------------------------------------------------
(* The state machine *)

\* what the environment does to one sensor during an operation
Idle == [fetch |-> FetchError, dbfail |-> "none"]

\* the choices for one sensor: any fetch outcome, and a store failure where
\* the store is reached with a batch
Choices(sensor_id, date_from, date_to) ==
    LET fs == Fetches(provider[sensor_id], date_from, date_to)
    IN  {[fetch |-> f, dbfail |-> "none"] : f \in fs}
        \cup {[fetch |-> f, dbfail |-> d] :
                 f \in {g \in fs : /\ g.data.points # <<>>
                                  /\ \A i \in 1..Len(g.data.points) :
                                        g.data.points[i] \in Catalogue},
                 d \in {"add", "update"}}

RECURSIVE Envs(_, _, _)
Envs(sens, date_from, date_to) ==
    IF sens = {} THEN {[s \in SensorIds |-> Idle]}
    ELSE LET s == CHOOSE x \in sens : TRUE
         IN  {[f EXCEPT ![s] = c] :
                 f \in Envs(sens \ {s}, date_from, date_to),
                 c \in Choices(s, date_from, date_to)}

SeqIds(rowSeq) == {rowSeq[i].id : i \in 1..Len(rowSeq)}
SeqSet(seq) == {seq[i] : i \in 1..Len(seq)}

\* the start and end dates a caller of sync_station_data passes
StartDates == {NoDate, Given(parse_datetime([wall |-> T0 - 2, tz |-> "+00:00"]))}
EndDates == {NoDate, Given(parse_datetime([wall |-> T0 - 1, tz |-> "+00:00"]))}

\* the rows a direct caller of add_measurements passes; sensor "c" is not
\* registered in StoreInit
Row(sensor_id, wall, value) ==
    [sensor_id |-> sensor_id, timestamp |-> [wall |-> wall, tz |-> "+00:00"],
     value |-> value]

BatchRows == {Row("a", T0, 0), Row("a", T0, 1), Row("a", T0 + 1, 0), Row("c", T0, 0)}

Batches == UNION {[1..n -> BatchRows] : n \in 0..MaxBatch}

\* the bodies a direct caller of _process_sensor_data passes
ResponseLists == UNION {[1..n -> Catalogue \cup Junk] : n \in 0..MaxResponse}

\* the timestamp field of the last point of a response that has a timestamp
\* and a value, both well-formed (NoString if there is none)
RECURSIVE LastTimestamp(_)
LastTimestamp(points) ==
    IF points = <<>> THEN NoString
    ELSE LET p == points[Len(points)]
             ts == IF p.date_utc.k \in {"absent", "empty"} THEN p.date ELSE p.date_utc
         IN  IF ts.k = "str" /\ p.value.k \in {"num", "numstr"}
             THEN ts.s
             ELSE LastTimestamp(SubSeq(points, 1, Len(points) - 1))

\* per sensor, the last such timestamp of the response it was given
LastSeen(env) ==
    [s \in SensorIds |->
        IF env[s].fetch.ok THEN LastTimestamp(env[s].fetch.data.points) ELSE NoString]

\* the sensors of `sens` whose fetch raises, and those whose store fails
FetchFailed(sens, env) == {s \in sens : ~env[s].fetch.ok}
StoreFailed(sens, env) == {s \in sens : env[s].fetch.ok /\ env[s].dbfail # "none"}

\* lastCall: the operation, its arguments (station_id, start_date, end_date,
\* batch, points; fail: the storage layer was made to fail), what it returned
\* (results, count, raised), the requests it sent, `seen`, the LastSeen of its
\* responses, `repeat`, whether it repeats the call before it,
\* `rowsBefore`, the number of measurement rows when it began, and
\* `fetchFailed` and `storeFailed`, the sensors for which the API call raised
\* and for which the store raised; for a run: its configuration, its faults,
\* the stations whose sync returned (`synced`) and the statistics it returned
NoCall ==
    [op |-> "none", station_id |-> "st1", start_date |-> NoDate, end_date |-> NoDate,
     seen |-> [s \in SensorIds |-> NoString], results |-> <<>>, requests |-> <<>>,
     batch |-> <<>>, points |-> <<>>, fail |-> FALSE, count |-> 0,
     raised |-> FALSE, repeat |-> FALSE, rowsBefore |-> 0,
     fetchFailed |-> {}, storeFailed |-> {},
     config |-> [id \in StationIds |-> "absent"], faults |-> {}, synced |-> <<>>,
     stats |-> NoStats,
     retry |-> [max_retries |-> 0, initial_backoff |-> 0, backoff_factor |-> 0,
                exceptions |-> {}, layer |-> "none"],
     env |-> [answers |-> <<>>, fractions |-> <<>>, total |-> 0,
              json_error_is_request_exception |-> TRUE,
                    requests_per_hour |-> default_requests_per_hour, latency |-> 0,
                    method |-> "GET", endpoint |-> "station/st1", params |-> "",
                    data |-> ""],
     error |-> "none", body |-> "none", progress |-> NoProgress,
     timestamp |-> 0, signature |-> hmac_new("", ""),
     station |-> station_data("st1", TRUE), returned |-> get_station(NoStations, "st1"),
     sensor |-> [id |-> "a", station_id |-> "st1"]]

Init ==
    /\ stations = [id \in StationIds |-> NoStation]
    /\ sensors = <<>>
    /\ measurements = EmptyBag
    /\ provider = [s \in SensorIds |-> {}]
    /\ now = T0
    /\ lastCall = NoCall

\* the number of points the provider holds
Held == Cardinality({sp \in SensorIds \X Catalogue : sp[2] \in provider[sp[1]]})

\* an hour passes
Tick ==
    /\ now < T0 + MaxTicks
    /\ now' = now + 1
    /\ lastCall' = [NoCall EXCEPT !.op = "tick"]
    /\ UNCHANGED <<stations, sensors, measurements, provider>>

\* the provider receives a point of a sensor (possibly late: its timestamp
\* may lie anywhere in the past)
Publish(sensor_id, point) ==
    /\ point \notin provider[sensor_id]
    /\ Held < MaxPoints
    /\ PointInstant(point) <= now
    /\ provider' = [provider EXCEPT ![sensor_id] = @ \cup {point}]
    /\ lastCall' = [NoCall EXCEPT !.op = "publish"]
    /\ UNCHANGED <<stations, sensors, measurements, now>>

\* StationManager.process_new_station for a station not yet in the store
ProcessNewStation(station_id, enabled) ==
    /\ ~stations[station_id].present
    /\ LET end_dt == NaiveNow(now)
           start_dt == MinusHours(end_dt, backfill_days * 24)
       IN  \E env \in Envs(SeqSet(ApiSensors(station_id)),
                           format_datetime(start_dt), format_datetime(end_dt)) :
             \E r \in {process_new_station(stations, sensors, measurements,
                                           station_id, enabled, now, env)} :
                 /\ stations' = r.stations
                 /\ sensors' = r.sensors
                 /\ measurements' = r.rows
                 /\ lastCall' = [NoCall EXCEPT !.op = "process_new_station",
                                    !.station_id = station_id,
                                    !.seen = LastSeen(env),
                                    !.requests = r.requests,
                                    !.rowsBefore = BagCardinality(measurements),
                                    !.fetchFailed =
                                        FetchFailed(SeqSet(ApiSensors(station_id)), env),
                                    !.storeFailed =
                                        StoreFailed(SeqSet(ApiSensors(station_id)), env)]
    /\ UNCHANGED <<provider, now>>

\* StationManager.sync_station_data(station_id, start_date, end_date)
SyncStationData(station_id, start_date, end_date) ==
    /\ LET start_dt == WindowStart(stations[station_id], start_date, now)
           end_dt == WindowEnd(end_date, now)
           mine == IF stations[station_id].present /\ stations[station_id].enabled
                   THEN SeqIds(get_sensors_for_station(sensors, station_id))
                   ELSE {}
       IN  \E env \in Envs(mine, format_datetime(start_dt), format_datetime(end_dt)) :
             \E r \in {sync_station_data(stations, sensors, measurements,
                                         station_id, start_date, end_date, now, env)} :
                 /\ stations' = r.stations
                 /\ measurements' = r.rows
                 /\ lastCall' = [NoCall EXCEPT !.op = "sync_station_data",
                                    !.station_id = station_id,
                                    !.start_date = start_date, !.end_date = end_date,
                                    !.seen = LastSeen(env), !.results = r.results,
                                    !.requests = r.requests,
                                    !.rowsBefore = BagCardinality(measurements),
                                    !.fetchFailed = FetchFailed(mine, env),
                                    !.storeFailed = StoreFailed(mine, env)]
    /\ UNCHANGED <<sensors, provider, now>>

\* DatabaseManager.add_measurements(batch), called directly
AddMeasurements(batch, fail) ==
    /\ LET r == add_measurements(measurements, sensors, batch, fail)
       IN  /\ measurements' = r.rows
           /\ lastCall' = [NoCall EXCEPT !.op = "add_measurements",
                              !.batch = batch, !.fail = fail, !.count = r.count,
                              !.raised = r.raised,
                              !.rowsBefore = BagCardinality(measurements),
                              !.repeat = /\ lastCall.op = "add_measurements"
                                         /\ lastCall.batch = batch
                                         /\ ~lastCall.raised]
    /\ UNCHANGED <<stations, sensors, provider, now>>

\* DataCollector._initialize_stations() of a collector started with
\* `config`, the API and the store answering
InitializeStations(config) ==
    /\ \E r \in {_initialize_stations(stations, sensors, measurements, config, now,
                                      {}, provider)} :
          /\ stations' = r.stations
          /\ sensors' = r.sensors
          /\ measurements' = r.rows
          /\ lastCall' = [NoCall EXCEPT !.op = "_initialize_stations",
                             !.config = config, !.requests = r.requests,
                             !.raised = r.raised,
                             !.rowsBefore = BagCardinality(measurements)]
    /\ UNCHANGED <<provider, now>>

\* the configurations of the stations of the configuration file
StationConfigs ==
    {config \in [StationIds -> {"enabled", "disabled", "absent"}] :
        \A id \in StationIds : config[id] = "absent" <=> id \notin ConfiguredStations}

Next ==
    \/ Tick
    \/ \E id \in ConfiguredStations : \E s \in SeqSet(ApiSensors(id)), p \in Catalogue :
          Publish(s, p)
    \/ \E id \in ConfiguredStations, enabled \in BOOLEAN : ProcessNewStation(id, enabled)
    \/ \E id \in ConfiguredStations, sd \in StartDates, ed \in EndDates :
          SyncStationData(id, sd, ed)

Spec == Init /\ [][Next]_vars

\* stations are stored by process_new_station, enabled or not, and the
\* collector initialises its stations
DiscoveryNext ==
    \/ Tick
    \/ \E id \in ConfiguredStations : \E s \in SeqSet(ApiSensors(id)), p \in Catalogue :
          Publish(s, p)
    \/ \E id \in ConfiguredStations, enabled \in BOOLEAN : ProcessNewStation(id, enabled)
    \/ \E config \in StationConfigs : InitializeStations(config)

DiscoverySpec == Init /\ [][DiscoveryNext]_vars

----------------------------------------------------------------------------
(* The store and _process_sensor_data on their own *)

\* the store after process_new_station("st1") found no data to backfill
StoreInit ==
    /\ stations = [id \in StationIds |->
                      IF id = "st1"
                      THEN add_station([i \in StationIds |-> NoStation],
                                       station_data("st1", TRUE))["st1"]
                      ELSE NoStation]
    /\ sensors = <<[id |-> "a", station_id |-> "st1"], [id |-> "b", station_id |-> "st1"]>>
    /\ measurements = EmptyBag
    /\ provider = [s \in SensorIds |-> {}]
    /\ now = T0
    /\ lastCall = NoCall

\* StationManager._process_sensor_data("st1", "a", data)
ProcessSensorData(data, dbfail) ==
    /\ \E r \in {_process_sensor_data(stations, sensors, measurements,
                                       "st1", "a", data, dbfail)} :
          /\ stations' = r.stations
          /\ measurements' = r.rows
          /\ lastCall' = [NoCall EXCEPT !.op = "_process_sensor_data",
                             !.points = data.points, !.fail = (dbfail # "none"),
                             !.count = r.count, !.raised = r.raised,
                             !.rowsBefore = BagCardinality(measurements)]
    /\ UNCHANGED <<sensors, provider, now>>

StoreNext ==
    \E batch \in Batches, fail \in BOOLEAN : AddMeasurements(batch, fail)

StoreSpec == StoreInit /\ [][StoreNext]_vars

PointsNext ==
    \/ \E ps \in ResponseLists, dbfail \in DbFails :
          ProcessSensorData([isDict |-> TRUE, points |-> ps], dbfail)
    \/ ProcessSensorData([isDict |-> FALSE, points |-> <<>>], "none")

PointsSpec == StoreInit /\ [][PointsNext]_vars

----------------------------------------------------------------------------
(* The coordinator: runs of the collector against a provider that holds data *)

\* the configurations a run may be started with: st1 and st2 are listed,
\* enabled or not; st3 is listed as enabled or not listed
Configs ==
    {config \in [StationIds -> {"enabled", "disabled", "absent"}] :
        /\ config["st1"] # "absent"
        /\ config["st2"] # "absent"
        /\ config["st3"] # "disabled"}

RECURSIVE FaultSetsUpTo(_)
FaultSetsUpTo(k) ==
    IF k = 0 THEN {{}}
    ELSE LET prev == FaultSetsUpTo(k - 1)
         IN  prev \cup {F \cup {f} : F \in prev, f \in Faults}

FaultSets == FaultSetsUpTo(MaxFaults)

RunInit ==
    /\ stations = [id \in StationIds |-> NoStation]
    /\ sensors = <<>>
    /\ measurements = EmptyBag
    /\ provider = [s \in SensorIds |-> IF s = "a" THEN {V1} ELSE IF s = "c" THEN {V2} ELSE {}]
    /\ now = T0
    /\ lastCall = NoCall

\* DataCollector.run() of a process started with `config`; the collector is
\* started at most once per reading of the clock
Run(config, faults) ==
    /\ lastCall.op # "run"
    /\ \E r \in {run(stations, sensors, measurements, config, now, faults, provider)} :
          /\ stations' = r.stations
          /\ sensors' = r.sensors
          /\ measurements' = r.rows
          /\ lastCall' = [NoCall EXCEPT !.op = "run", !.config = config,
                             !.faults = faults, !.requests = r.requests,
                             !.synced = r.synced, !.stats = r.stats,
                             !.raised = r.raised,
                             !.rowsBefore = BagCardinality(measurements)]
    /\ UNCHANGED <<provider, now>>

RunNext ==
    \/ Tick
    \/ \E config \in Configs, faults \in FaultSets : Run(config, faults)

RunSpec == RunInit /\ [][RunNext]_vars

\* what goes wrong in these runs: nothing, or one station's sensors cannot be
\* listed, or one station cannot be read when its sync starts, or a fetch is
\* refused
CoordinatorFaults ==
    {{}} \cup {{Fault(at, id)} : at \in {"list_sensors", "read_station"},
                                 id \in StationIds}
         \cup {{Fault("fetch_auth", "a")}}

\* runs of the collector over a store in which st2 may have been stored by
\* process_new_station, enabled or not
CoordinatorNext ==
    \/ Tick
    \/ \E enabled \in BOOLEAN : ProcessNewStation("st2", enabled)
    \/ \E config \in Configs, faults \in CoordinatorFaults : Run(config, faults)

CoordinatorSpec == RunInit /\ [][CoordinatorNext]_vars

----------------------------------------------------------------------------
(* The retry wrappers and the client's request as functions of what the
   server, the network and the clock do *)

\* the longest script of answers and the largest number of retries drawn
MaxScript == 2
MaxRetries == 3

\* sequences over S of length 1..n
RECURSIVE ScriptsUpTo(_, _)
ScriptsUpTo(S, n) ==
    IF n = 0 THEN {}
    ELSE ScriptsUpTo(S, n - 1) \cup [1..n -> S]

\* what one HTTP exchange can meet
AnswerSet ==
    {Status(200, "object"), Status(200, "error"), Status(200, "falsy_error"),
     Status(200, "list"), Status(200, "not_json"), Status(300, "object"),
     Status(401, "error"), Status(403, "error"), Status(404, "error"),
     Status(429, "error"), Status(500, "not_json"),
     Transport("connect_timeout"), Transport("read_timeout"),
     Transport("connection_error")}

\* what a wrapped function can do: return, or raise one of these
OutcomeSet ==
    {Outcome(e) : e \in {"none", "APIResponseError", "APITimeoutError", "APIAuthError",
                         "APIRateLimitError", "APIError"}}

\* the fractions of the clock's second met by successive sleeps
\* the requests_per_hour of the clients drawn: the default, and one whose
\* interval is longer than the first sleep of the wrapper
RequestsPerHour == {default_requests_per_hour, 360}

\* the durations of an exchange with the server, in milliseconds
Latencies == {0, 300}

FractionScripts == {<<0>>, <<500>>, <<999>>, <<999, 0>>, <<0, 999>>}

\* the store plays no part in these calls
ClientInit ==
    /\ stations = [id \in StationIds |-> NoStation]
    /\ sensors = <<>>
    /\ measurements = EmptyBag
    /\ provider = [s \in SensorIds |-> {}]
    /\ now = T0
    /\ lastCall = NoCall

\* the return or the raise r of the call `op` made with `retry` as the
\* decorator's arguments against `env`
Returned(op, retry, env, r) ==
    /\ lastCall' = [NoCall EXCEPT !.op = op, !.retry = retry, !.env = env,
                                  !.error = r.error, !.body = r.body,
                                  !.raised = r.error # "none", !.progress = r.st]
    /\ UNCHANGED <<stations, sensors, measurements, provider, now>>

\* a function decorated with retry_with_backoff(max_retries, initial_backoff,
\* backoff_factor, exceptions) that raises what `outcomes` says is called
RetryCall(max_retries, initial_backoff, backoff_factor, exceptions, outcomes, fractions) ==
    \E env \in {[answers |-> outcomes, fractions |-> fractions, total |-> 0,
                    json_error_is_request_exception |-> TRUE,
                    requests_per_hour |-> default_requests_per_hour, latency |-> 0,
                    method |-> "GET", endpoint |-> "station/st1", params |-> "",
                    data |-> ""]} :
          Returned("retry_with_backoff",
                   [max_retries |-> max_retries, initial_backoff |-> initial_backoff,
                    backoff_factor |-> backoff_factor, exceptions |-> exceptions,
                    layer |-> "scripted"],
                   env,
                   retry_with_backoff(max_retries, initial_backoff, backoff_factor,
                                      exceptions, "scripted", env))

\* _request of a client built with max_retries = total is called
ClientRequest(env) ==
    Returned("_request",
                [max_retries |-> request_max_retries,
                 initial_backoff |-> request_initial_backoff,
                 backoff_factor |-> default_backoff_factor,
                 exceptions |-> RequestExceptions, layer |-> "request"],
                env, _request(env))

\* get_station_details of a manager over such a client is called
GetStationDetails(env) ==
    Returned("get_station_details",
                [max_retries |-> manager_max_retries,
                 initial_backoff |-> default_initial_backoff,
                 backoff_factor |-> default_backoff_factor,
                 exceptions |-> DefaultExceptions, layer |-> "manager"],
                env, get_station_details(env))

\* the clients, servers and clocks drawn
ClientEnvs ==
    [answers : ScriptsUpTo(AnswerSet, MaxScript), fractions : {<<0>>, <<999, 0>>},
     total : 0..MaxRetries, json_error_is_request_exception : BOOLEAN,
     requests_per_hour : RequestsPerHour, latency : Latencies,
     method : {"GET"}, endpoint : {"station/st1"}, params : {""}, data : {""}]

\* one call is made per behaviour
ClientNext ==
    \/ /\ lastCall.op = "none"
       /\ \E max_retries \in 0..MaxRetries,
             initial_backoff \in {default_initial_backoff, request_initial_backoff},
             backoff_factor \in {1, default_backoff_factor, 3},
             exceptions \in {RequestExceptions, DefaultExceptions},
             outcomes \in ScriptsUpTo(OutcomeSet, MaxScript),
             fractions \in FractionScripts :
             RetryCall(max_retries, initial_backoff, backoff_factor, exceptions,
                       outcomes, fractions)
    \/ /\ lastCall.op = "none"
       /\ \E env \in ClientEnvs : ClientRequest(env)
    \/ /\ lastCall.op = "none"
       /\ \E env \in ClientEnvs : GetStationDetails(env)

ClientSpec == ClientInit /\ [][ClientNext]_vars

----------------------------------------------------------------------------
(* The authenticator on its own *)

\* the requests drawn: methods, endpoints, query parameters and bodies, against
\* servers that answer, fail and recover
AuthAnswers ==
    {Status(200, "object"), Status(200, "error"), Status(500, "not_json"),
     Transport("read_timeout")}

AuthEnvs ==
    [answers : ScriptsUpTo(AuthAnswers, MaxScript), fractions : {<<0>>},
     total : {0, MaxRetries}, json_error_is_request_exception : {TRUE},
     requests_per_hour : {default_requests_per_hour}, latency : {0, 300},
     method : {"GET", "post"},
     endpoint : {"station/st1", "/station/st1/sensors"},
     params : {"", "data_group=raw"}, data : {"", "{\"a\": 1}"}]

\* helpers.generate_signature is called
GenerateSignature(method, path, timestamp, content) ==
    /\ lastCall' = [NoCall EXCEPT
                       !.op = "generate_signature",
                       !.env = [@ EXCEPT !.method = method, !.endpoint = path,
                                         !.data = content],
                       !.timestamp = timestamp,
                       !.signature = generate_signature(method, path, timestamp,
                                                        private_key, content)]
    /\ UNCHANGED <<stations, sensors, measurements, provider, now>>

\* one call is made per behaviour
AuthNext ==
    \/ /\ lastCall.op = "none"
       /\ \E env \in AuthEnvs : ClientRequest(env)
    \/ /\ lastCall.op = "none"
       /\ \E method \in {"GET", "POST"}, path \in {"/station/st1", "/data"},
             timestamp \in {0, Epoch \div 1000}, content \in {"", "{\"a\": 1}"} :
             GenerateSignature(method, path, timestamp, content)

AuthSpec == ClientInit /\ [][AuthNext]_vars

----------------------------------------------------------------------------
(* The tables on their own: add_station, add_sensor and add_measurements
   called directly *)

\* the metadata values a caller of add_station passes
Metadata ==
    {None, station_details, Py("dict", "{'a': 1}"), Py("dict", "{1: 'a'}"),
     Py("dict", "{}"), Py("list", "[1, 2]"), Py("list", "[]"),
     Py("str", "abc"), Py("str", "5"), Py("str", "null"), Py("str", ""),
     Py("str", "{\"a\":1}"), Py("int", "5"), Py("int", "0"),
     Py("bool", "True"), Py("bool", "False")}

\* the station dicts a caller of add_station passes
StationDicts ==
    {[station_data("st1", TRUE) EXCEPT !.metadata = metadata] : metadata \in Metadata}
    \cup {station_data("st1", FALSE), station_data("st2", TRUE)}

\* the batches a caller of add_measurements passes: rows of sensor "a" and
\* of sensor "c", which no caller registers
TableBatches ==
    {<<Row("a", T0, 0)>>, <<Row("a", T0, 1)>>, <<Row("c", T0, 0)>>,
     <<Row("a", T0 + 1, 0), Row("c", T0, 0)>>}

\* DatabaseManager.add_station(station) followed by get_station(station["id"])
AddStation(station) ==
    /\ stations' = add_station(stations, station)
    /\ lastCall' = [NoCall EXCEPT !.op = "add_station", !.station = station,
                       !.raised = add_station_raises(station),
                       !.returned = get_station(stations', station.id)]
    /\ UNCHANGED <<sensors, measurements, provider, now>>

\* DatabaseManager.add_sensor(sensor)
AddSensor(sensor_id, station_id) ==
    /\ sensors' = add_sensor(stations, sensors, sensor_id, station_id)
    /\ lastCall' = [NoCall EXCEPT !.op = "add_sensor",
                       !.sensor = [id |-> sensor_id, station_id |-> station_id],
                       !.raised = add_sensor_raises(stations, station_id)]
    /\ UNCHANGED <<stations, measurements, provider, now>>

TablesNext ==
    \/ \E station \in StationDicts : AddStation(station)
    \/ \E station_id \in {"st1", "st2", "st3"} : AddSensor("a", station_id)
    \/ \E batch \in TableBatches : AddMeasurements(batch, FALSE)

TablesSpec == ClientInit /\ [][TablesNext]_vars

----------------------------------------------------------------------------
(* Properties *)

\* the rows of a bag that belong to one sensor
RowsOf(rows, sensor_id) ==
    LET RECURSIVE Total(_)
        Total(S) == IF S = {} THEN 0
                    ELSE LET r == CHOOSE x \in S : TRUE
                         IN  CopiesIn(r, rows) + Total(S \ {r})
    IN  Total({r \in BagToSet(rows) : r.sensor_id = sensor_id})

\* C1: in every state reached by discovery, backfill and sync calls, no
\* (sensor_id, timestamp, value) triple is stored in more than one row.
C1_NoDuplicateRows ==
    \A r \in BagToSet(measurements) : CopiesIn(r, measurements) = 1

\* a sync that was handed points already stored: it counted measurements,
\* and the table has the rows it had before
C1_Witness ==
    /\ lastCall.op = "sync_station_data"
    /\ SumCounts(lastCall.results) > 0
    /\ BagCardinality(measurements) = lastCall.rowsBefore
    /\ C1_NoDuplicateRows

\* C2: add_measurements(B) called a second time right after
\* add_measurements(B) leaves the measurement rows exactly as they were.
C2_Idempotent ==
    [][(lastCall'.op = "add_measurements" /\ lastCall'.repeat)
          => measurements' = measurements]_vars

\* a batch with rows has been added twice in a row, both without a raise
C2_Witness ==
    /\ lastCall.op = "add_measurements"
    /\ lastCall.repeat
    /\ ~lastCall.raised
    /\ lastCall.batch # <<>>
    /\ lastCall.rowsBefore > 0

\* C3: add_measurements returns the number of rows it inserted, which is the
\* number of distinct triples of the batch not stored before; rows already
\* stored raise nothing, and a repeat of the batch returns 0.
C3_ReturnsNewlyInserted ==
    [][lastCall'.op = "add_measurements" =>
          LET batch == lastCall'.batch
              fresh == {Triple(batch[i]) : i \in 1..Len(batch)}
                           \ {Triple(r) : r \in BagToSet(measurements)}
              refused == \E i \in 1..Len(batch) :
                            ~SensorExists(sensors, batch[i].sensor_id)
          IN  /\ lastCall'.raised <=> (batch # <<>> /\ (lastCall'.fail \/ refused))
              /\ ~lastCall'.raised =>
                    /\ lastCall'.count = Cardinality(fresh)
                    /\ lastCall'.count =
                          BagCardinality(measurements') - BagCardinality(measurements)
              /\ (lastCall'.repeat /\ ~lastCall'.raised) => lastCall'.count = 0
      ]_vars

\* a batch holding the same new row twice and a stored row returned 1
C3_Witness ==
    /\ lastCall.op = "add_measurements"
    /\ ~lastCall.raised
    /\ Len(lastCall.batch) = 2
    /\ lastCall.count = 1
    /\ lastCall.rowsBefore > 0

\* the watermark of a station as an instant
WatermarkInstant(station) == StringInstant(station.last_updated)

\* C4 (as claimed): a sync_station_data call that produces at least one
\* measurement never leaves the station's watermark earlier than it was.
C4_WatermarkMonotonic ==
    [][(/\ lastCall'.op = "sync_station_data"
        /\ SumCounts(lastCall'.results) > 0
        /\ stations[lastCall'.station_id].last_updated # NoString)
          => WatermarkInstant(stations'[lastCall'.station_id])
                >= WatermarkInstant(stations[lastCall'.station_id])]_vars

\* the row a well-formed provider point is stored as
StoredRow(sensor_id, point) == MeasurementOf(sensor_id, point)

\* C5 (as claimed): when a discovery or sync call returns, every point the
\* provider holds for a sensor of a station, timestamped not later than that
\* station's watermark, is stored.
C5_NoLossUnderWatermark ==
    lastCall.op \in {"sync_station_data", "process_new_station"} =>
        \A i \in 1..Len(sensors) :
            LET station == stations[sensors[i].station_id]
            IN  (station.present /\ station.last_updated # NoString) =>
                    \A p \in provider[sensors[i].id] :
                        PointInstant(p) <= WatermarkInstant(station)
                            => BagIn(StoredRow(sensors[i].id, p), measurements)

\* C6 (as claimed): the count sync_station_data returns for a sensor is the
\* number of rows the call added to the store for that sensor.
C6_CountsNewlyAdded ==
    [][lastCall'.op = "sync_station_data" =>
          \A i \in 1..Len(lastCall'.results) :
              lastCall'.results[i].count =
                  RowsOf(measurements', lastCall'.results[i].sensor_id)
                      - RowsOf(measurements, lastCall'.results[i].sensor_id)]_vars

\* C7: every request of one sync_station_data call asks for the same window:
\* it ends at the caller's end, else now; it starts at the caller's start if
\* given, else one hour before the stored watermark if there is one, else
\* backfill_days before now.
C7_FetchWindow ==
    [][lastCall'.op = "sync_station_data" =>
          LET c == lastCall'
              wm == stations[c.station_id].last_updated
              from == IF c.start_date.given THEN Instant(c.start_date.dt)
                      ELSE IF wm # NoString THEN StringInstant(wm) - 1
                      ELSE now - backfill_days * 24
              to == IF c.end_date.given THEN Instant(c.end_date.dt) ELSE now
          IN  \A i \in 1..Len(c.requests) :
                  /\ StringInstant(c.requests[i].date_from) = from
                  /\ StringInstant(c.requests[i].date_to) = to
                  /\ c.requests[i].date_from = c.requests[1].date_from
                  /\ c.requests[i].date_to = c.requests[1].date_to]_vars

\* a sync given a start while a watermark is stored (the first sensor moved
\* it during the call, to the timestamp of V2): both sensors were asked from
\* the caller's start on
C7_Witness ==
    /\ lastCall.op = "sync_station_data"
    /\ lastCall.start_date.given
    /\ ~lastCall.end_date.given
    /\ Len(lastCall.requests) = 2
    /\ lastCall.results[1].count > 0
    /\ stations[lastCall.station_id].last_updated # NoString
    /\ StringInstant(lastCall.requests[2].date_from) = T0 - 2
    /\ StringInstant(lastCall.requests[2].date_to) = now

\* a sync without arguments on a station with a watermark at T0: it asked
\* from T0 - 1 on
C7_WitnessOverlap ==
    /\ lastCall.op = "sync_station_data"
    /\ ~lastCall.start_date.given
    /\ Len(lastCall.requests) = 2
    /\ StringInstant(lastCall.requests[1].date_from) = T0 - 1

\* a timestamp string as isoformat() renders it after parsing (UTC assumed
\* when it carries no offset)
Normalised(s) ==
    [wall |-> s.wall, tz |-> IF s.tz = "+01:00" THEN "+01:00" ELSE "+00:00"]

\* C8: after a sync_station_data call the watermark is the timestamp of the
\* last measurement of the last sensor the call counted measurements for
\* (last in response order); if it counted none, the watermark is unchanged.
C8_WatermarkIsLastPoint ==
    [][lastCall'.op = "sync_station_data" =>
          LET c == lastCall'
              counted == {i \in 1..Len(c.results) : c.results[i].count > 0}
              last == CHOOSE i \in counted : \A j \in counted : j <= i
          IN  IF counted = {}
              THEN stations'[c.station_id].last_updated
                      = stations[c.station_id].last_updated
              ELSE stations'[c.station_id].last_updated
                      = Normalised(c.seen[c.results[last].sensor_id])]_vars

\* the last sensor answered with its newer point first and its older point
\* last: the watermark is the older timestamp
C8_Witness ==
    /\ lastCall.op = "sync_station_data"
    /\ Len(lastCall.results) = 2
    /\ lastCall.results[2].count = 2
    /\ lastCall.seen[lastCall.results[2].sensor_id] = PointTimestamp(V1).s
    /\ stations[lastCall.station_id].last_updated = Normalised(PointTimestamp(V1).s)

\* C9: sync_station_data on a station stored as disabled returns an empty
\* mapping, sends no request and writes nothing to the store.
C9_DisabledNoOp ==
    [][(/\ lastCall'.op = "sync_station_data"
        /\ stations[lastCall'.station_id].present
        /\ ~stations[lastCall'.station_id].enabled)
          => /\ lastCall'.results = <<>>
             /\ lastCall'.requests = <<>>
             /\ stations' = stations
             /\ sensors' = sensors
             /\ measurements' = measurements]_vars

\* a disabled station with sensors and provider data was synced
C9_Witness ==
    /\ lastCall.op = "sync_station_data"
    /\ stations[lastCall.station_id].present
    /\ ~stations[lastCall.station_id].enabled
    /\ get_sensors_for_station(sensors, lastCall.station_id) # <<>>
    /\ \E s \in SensorIds : provider[s] # {}
    /\ lastCall.results = <<>>

\* a point lacks a timestamp when neither date_utc nor date carries one, and
\* lacks a value when the value field is missing or null
LacksTimestamp(point) ==
    point.date_utc.k \in {"absent", "empty"} /\ point.date.k \in {"absent", "empty"}

LacksValue(point) == point.value.k = "absent"

HasBothFields(point) == ~LacksTimestamp(point) /\ ~LacksValue(point)

\* a point whose timestamp (date_utc if it carries one, else date) parses and
\* whose value is a number or a numeric string
WellFormed(point) ==
    /\ HasBothFields(point)
    /\ (IF point.date_utc.k \in {"absent", "empty"}
        THEN point.date.k ELSE point.date_utc.k) = "str"
    /\ point.value.k \in {"num", "numstr"}

\* C10 (as claimed): _process_sensor_data does not raise on points lacking a
\* timestamp or a value, and its insert batch holds every point of the
\* response that has both fields; each of them is stored.
C10_BothFieldsInserted ==
    (lastCall.op = "_process_sensor_data" /\ ~lastCall.fail) =>
        /\ ~lastCall.raised
        /\ lastCall.count =
              Cardinality({i \in 1..Len(lastCall.points) : HasBothFields(lastCall.points[i])})
        /\ \A i \in 1..Len(lastCall.points) :
              HasBothFields(lastCall.points[i]) =>
                  /\ WellFormed(lastCall.points[i])
                  /\ BagIn(StoredRow("a", lastCall.points[i]), measurements)

\* C10 (amended): _process_sensor_data raises only when the store fails; it
\* excludes the points lacking a timestamp or a value and the points whose
\* timestamp does not parse or whose value is not numeric; its insert batch
\* holds every other point, a point of value 0 included, and each is stored.
C10_WellFormedInserted ==
    lastCall.op = "_process_sensor_data" =>
        /\ lastCall.raised => lastCall.fail
        /\ ~lastCall.raised =>
              /\ lastCall.count =
                    Cardinality({i \in 1..Len(lastCall.points) : WellFormed(lastCall.points[i])})
              /\ \A i \in 1..Len(lastCall.points) :
                    WellFormed(lastCall.points[i]) =>
                        BagIn(StoredRow("a", lastCall.points[i]), measurements)

\* a response of a point without a value followed by a point of value 0 was
\* processed: the batch held one measurement, of value 0, and it is stored
C10_Witness ==
    /\ lastCall.op = "_process_sensor_data"
    /\ ~lastCall.raised
    /\ lastCall.points = <<JNoValue, V1>>
    /\ lastCall.count = 1
    /\ StoredRow("a", V1).value = 0
    /\ BagIn(StoredRow("a", V1), measurements)

\* C11: a sync_station_data call on a stored, enabled station does not raise;
\* it sends one request per sensor of the station, in the order of the sensor
\* rows, and records one count per sensor; a sensor whose fetch or whose
\* store raised is recorded with 0, and the sensors after it are still asked.
C11_SensorFailureContained ==
    [][(/\ lastCall'.op = "sync_station_data"
        /\ stations[lastCall'.station_id].present
        /\ stations[lastCall'.station_id].enabled)
          => LET c == lastCall'
                 mine == get_sensors_for_station(sensors, c.station_id)
             IN  /\ ~c.raised
                 /\ Len(c.results) = Len(mine)
                 /\ Len(c.requests) = Len(mine)
                 /\ \A i \in 1..Len(mine) :
                       /\ c.results[i].sensor_id = mine[i].id
                       /\ c.requests[i].sensor_id = mine[i].id
                       /\ mine[i].id \in c.fetchFailed \cup c.storeFailed
                             => c.results[i].count = 0]_vars

\* the fetch of the first sensor raised, and the second sensor was asked and
\* its measurements stored
C11_Witness ==
    /\ lastCall.op = "sync_station_data"
    /\ Len(lastCall.results) = 2
    /\ lastCall.results[1].sensor_id \in lastCall.fetchFailed
    /\ lastCall.results[1].count = 0
    /\ lastCall.requests[2].sensor_id = lastCall.results[2].sensor_id
    /\ lastCall.results[2].count > 0
    /\ RowsOf(measurements, lastCall.results[2].sensor_id) > 0

\* the store of the first sensor raised, and the second sensor was asked
C11_WitnessStore ==
    /\ lastCall.op = "sync_station_data"
    /\ Len(lastCall.results) = 2
    /\ lastCall.results[1].sensor_id \in lastCall.storeFailed
    /\ lastCall.results[2].count > 0

\* the entries of a sequence
Entries(q) == {q[i] : i \in 1..Len(q)}

\* a step of run() that reached the loop over the stations
RunLooped ==
    /\ lastCall'.op = "run"
    /\ ErrorString("General", "-") \notin Entries(lastCall'.stats.errors)

\* the enabled stations of the run just made whose sync raised
SyncRaised ==
    {id \in Entries(get_all_stations_enabled(stations)) :
        Fault("read_station", id) \in lastCall.faults}

\* C12: in run(), a station whose sync raises is counted in stations_failed
\* and gets one "Station" entry in errors, every other enabled station is
\* still synced and counted in stations_successful, whatever its place in the
\* loop, and run() returns normally.
C12_StationFailureIsolated ==
    [][RunLooped =>
        LET c == lastCall'
            enabled == Entries(get_all_stations_enabled(stations'))
            failed == {id \in enabled : Fault("read_station", id) \in c.faults}
        IN  /\ ~c.raised
            /\ c.stats.stations_processed = Cardinality(enabled)
            /\ c.stats.stations_failed = Cardinality(failed)
            /\ c.stats.stations_successful = Cardinality(enabled \ failed)
            /\ Entries(c.synced) = enabled \ failed
            /\ Len(c.synced) = Cardinality(enabled \ failed)
            /\ \A id \in StationIds :
                  Cardinality({i \in 1..Len(c.stats.errors) :
                                  c.stats.errors[i] = ErrorString("Station", id)})
                  = IF id \in failed THEN 1 ELSE 0]_vars

\* three enabled stations, the sync of the second raises: one failed, two
\* successful, and the third was synced after the failure
C12_Witness ==
    /\ lastCall.op = "run"
    /\ get_all_stations_enabled(stations) = StationOrder
    /\ SyncRaised = {"st2"}
    /\ lastCall.stats.stations_failed = 1
    /\ lastCall.stats.stations_successful = 2
    /\ lastCall.synced = <<"st1", "st3">>
    /\ \E i \in 1..Len(lastCall.requests) : lastCall.requests[i].sensor_id = "c"

\* C13: a failure in run() outside the loop over the stations, such as the
\* store failing when the enabled stations are listed, leaves run() as an
\* exception.
C13_OuterFailurePropagates ==
    (/\ lastCall.op = "run"
     /\ \/ Fault("list_enabled", "-") \in lastCall.faults
        \/ /\ Fault("list_existing", "-") \in lastCall.faults
           /\ get_stations(lastCall.config) # <<>>)
    => lastCall.raised

\* the stations synced in the run just made for which the API rejected the
\* credentials on a get_sensor_data of the sync
AuthRejected ==
    {id \in Entries(get_all_stations_enabled(stations)) :
        /\ Fault("read_station", id) \notin lastCall.faults
        /\ \E i \in 1..Len(get_sensors_for_station(sensors, id)) :
              Fault("fetch_auth", get_sensors_for_station(sensors, id)[i].id)
                  \in lastCall.faults}

\* C14: when the API rejects the credentials while a station is synced in
\* run(), the station is counted in stations_failed and errors has an entry
\* for it.
C14_AuthErrorReachesCoordinator ==
    (/\ lastCall.op = "run"
     /\ ErrorString("General", "-") \notin Entries(lastCall.stats.errors))
    => \A id \in AuthRejected :
          /\ lastCall.stats.stations_failed >= 1
          /\ ErrorString("Station", id) \in Entries(lastCall.stats.errors)

\* C15: a DatabaseError of a store operation during discovery, backfill or
\* sync leaves the step as an exception; the step does not return normally.
C15_StorageFailureSurfaced ==
    (/\ lastCall.op \in {"process_new_station", "sync_station_data"}
     /\ lastCall.storeFailed # {})
    => lastCall.raised

\* the call just made was of a function that raises, on every attempt, an
\* error the decorator retries
AlwaysFailsRetryably ==
    /\ lastCall.op = "retry_with_backoff"
    /\ \A i \in 1..Len(lastCall.env.answers) :
          Caught(lastCall.env.answers[i].error, lastCall.retry.exceptions)

\* C16: a function wrapped by retry_with_backoff(max_retries=N) that fails
\* with a retried error on every attempt is invoked exactly N + 1 times with
\* exactly N sleeps, and then the error of the last attempt is raised; a
\* request that always ends in APIResponseError is attempted exactly 4 times.
C16_RetryExhaustion ==
    /\ AlwaysFailsRetryably =>
          /\ lastCall.progress.invoked["scripted"] = lastCall.retry.max_retries + 1
          /\ Len(lastCall.progress.sleeps) = lastCall.retry.max_retries
          /\ lastCall.raised
          /\ lastCall.error
                = At(lastCall.env.answers, lastCall.retry.max_retries + 1).error
    /\ (/\ lastCall.op = "_request"
        /\ \A i \in 1..Len(lastCall.env.answers) :
              lastCall.env.answers[i] = Status(200, "error"))
       => /\ lastCall.progress.invoked["request"] = 4
          /\ Len(lastCall.progress.sleeps) = 3
          /\ lastCall.error = "APIResponseError"

\* max_retries = 3 and APIResponseError on every attempt: 4 attempts, 3 sleeps
C16_Witness ==
    /\ AlwaysFailsRetryably
    /\ lastCall.retry.max_retries = 3
    /\ lastCall.env.answers = <<Outcome("APIResponseError")>>
    /\ lastCall.progress.invoked["scripted"] = 4
    /\ Len(lastCall.progress.sleeps) = 3
    /\ lastCall.error = "APIResponseError"

\* the same through the client: 4 calls of session.request
C16_WitnessClient ==
    /\ lastCall.op = "_request"
    /\ lastCall.env.total = 3
    /\ lastCall.env.answers = <<Status(200, "error")>>
    /\ lastCall.progress.invoked["request"] = 4
    /\ lastCall.error = "APIResponseError"

\* backoff after k multiplications by backoff_factor
RECURSIVE Grown(_, _, _)
Grown(backoff, backoff_factor, k) ==
    IF k = 0 THEN backoff ELSE Grown(backoff * backoff_factor, backoff_factor, k - 1)

\* the call just made ran one retry sequence
OneRetrySequence == lastCall.op \in {"retry_with_backoff", "_request"}

\* C17 as stated: every delay of a retry sequence is at least the previous
\* delay times backoff_factor times 0.8.
C17_DelayGrowsByFactorTimes08 ==
    OneRetrySequence =>
        \A k \in 1..(Len(lastCall.progress.sleeps) - 1) :
            10 * lastCall.progress.sleeps[k + 1].sleep_time
                >= 8 * lastCall.retry.backoff_factor
                     * lastCall.progress.sleeps[k].sleep_time

\* C17: the k-th delay of a retry sequence (k from 0) is initial_backoff *
\* backoff_factor^k times a jitter in [0.8, 1.2), the jitter of each delay
\* being drawn on its own; so every delay is more than the previous delay
\* times backoff_factor times 2/3.  Delays are in microseconds, backoffs in
\* milliseconds.
C17_DelayGrowth ==
    OneRetrySequence =>
        LET sleeps == lastCall.progress.sleeps
            nominal(k) == Grown(lastCall.retry.initial_backoff,
                                lastCall.retry.backoff_factor, k - 1)
        IN  /\ \A k \in 1..Len(sleeps) :
                  /\ sleeps[k].sleep_time >= 800 * nominal(k)
                  /\ sleeps[k].sleep_time < 1200 * nominal(k)
            /\ \A k \in 1..(Len(sleeps) - 1) :
                  3 * sleeps[k + 1].sleep_time
                      > 2 * lastCall.retry.backoff_factor * sleeps[k].sleep_time

\* a jitter near 1.2 followed by a jitter of 0.8: the second delay is less
\* than the first times backoff_factor times 0.8
C17_Witness ==
    /\ OneRetrySequence
    /\ Len(lastCall.progress.sleeps) >= 2
    /\ lastCall.progress.sleeps[1].jitter = 1199
    /\ lastCall.progress.sleeps[2].jitter = 800
    /\ 10 * lastCall.progress.sleeps[2].sleep_time
          < 8 * lastCall.retry.backoff_factor * lastCall.progress.sleeps[1].sleep_time

\* C18: a request answered with APIAuthError, APIRateLimitError or a plain
\* APIError is not issued again by a retry wrapper: the error reaches the
\* caller after that single attempt.
C18_HardErrorsNotRetried ==
    lastCall.op \in {"_request", "get_station_details"} =>
        \A i \in 1..(Len(lastCall.progress.exchanges) - 1) :
            lastCall.progress.exchanges[i].error
                \notin {"APIAuthError", "APIRateLimitError", "APIError"}

\* C19: a request of a client built with max_retries = N that always fails
\* with APIResponseError or APITimeoutError is attempted exactly N + 1 times
\* by the retry wrapper.
C19_ConfiguredRetryLimit ==
    (/\ lastCall.op = "_request"
     /\ lastCall.error \in RequestExceptions
     /\ \A i \in 1..Len(lastCall.progress.exchanges) :
           lastCall.progress.exchanges[i].error \in RequestExceptions)
    => lastCall.progress.invoked["request"] = lastCall.env.total + 1

\* the outcome C20 gives to an HTTP call that met `answer`
Expected(answer) ==
    IF answer.kind = "status"
    THEN IF answer.status = 429 THEN "APIRateLimitError"
         ELSE IF answer.status \in {401, 403} THEN "APIAuthError"
         ELSE IF answer.status < 200 \/ answer.status > 299 THEN "APIError"
         ELSE IF answer.body = "error" THEN "APIResponseError"
         ELSE "none"
    ELSE IF answer.kind \in {"connect_timeout", "read_timeout"} THEN "APITimeoutError"
    ELSE "APIError"

\* C20: the outcome of one HTTP call is 429 -> APIRateLimitError, 401/403 ->
\* APIAuthError, any other status outside 2xx -> APIError, a 2xx JSON object
\* with a truthy error -> APIResponseError, a network timeout ->
\* APITimeoutError, another transport failure -> APIError, and otherwise the
\* return of the parsed body.
C20_ClassificationTotal ==
    lastCall.op = "_request" =>
        \A i \in 1..Len(lastCall.progress.exchanges) :
            lastCall.progress.exchanges[i].error
                = Expected(lastCall.progress.exchanges[i].answer)

\* C21: a 2xx response whose body is no JSON is classified APIResponseError
\* and so retried with backoff like a body with an error field: a request
\* that always meets such a body is attempted 4 times and ends in
\* APIResponseError.
C21_MalformedBodyRetried ==
    (/\ lastCall.op = "_request"
     /\ \A i \in 1..Len(lastCall.env.answers) :
           lastCall.env.answers[i] = Status(200, "not_json"))
    => /\ lastCall.error = "APIResponseError"
       /\ lastCall.progress.invoked["request"] = request_max_retries + 1


\* C22: any two consecutive calls of session.request made by a client, the
\* attempts of the retry wrapper included, are issued at least
\* 3600 / requests_per_hour seconds apart, and every one of them was counted
\* by the wait of the rate limiter
C22_RateLimiterSpacing ==
    lastCall.op \in {"_request", "get_station_details"}
    => LET issued == [i \in 1..Len(lastCall.progress.exchanges) |->
                         lastCall.progress.exchanges[i].issued]
       IN  /\ \A i \in 1..(Len(issued) - 1) :
                 issued[i + 1] - issued[i]
                     >= request_interval(lastCall.env.requests_per_hour)
           /\ lastCall.progress.rate_limiter.request_count = Len(issued)
           /\ lastCall.progress.invoked["request"] = Len(issued)

\* a retry whose backoff was shorter than the interval: the wait slept for
\* the rest of it
C22_Witness ==
    /\ lastCall.op = "_request"
    /\ Len(lastCall.progress.exchanges) >= 2
    /\ Len(lastCall.progress.sleeps) >= 1
    /\ lastCall.env.latency + lastCall.progress.sleeps[1].sleep_time \div 1000
           < request_interval(lastCall.env.requests_per_hour)
    /\ lastCall.progress.exchanges[2].issued - lastCall.progress.exchanges[1].issued
           = request_interval(lastCall.env.requests_per_hour)

\* C23: after the stations are initialised in a run that meets no failure,
\* every stored station the configuration names has the enabled flag the
\* configuration gives it, whichever way the two differed, and a station
\* configured as disabled is not synced by that run.
C23_EnabledFollowsConfiguration ==
    (lastCall.op = "run" /\ lastCall.faults = {})
    => \A id \in StationIds :
          (lastCall.config[id] # "absent" /\ stations[id].present)
          => /\ stations[id].enabled = (lastCall.config[id] = "enabled")
             /\ lastCall.config[id] = "disabled"
                    => id \notin Entries(lastCall.synced)

\* C24: when _initialize_stations finds every configured station in the
\* store and enables those stored as disabled, the row of each station
\* keeps its name, coordinates, metadata and last_updated, only its enabled
\* flag changes, and the sensors and the measurements stay as they were.
C24_ReconciliationChangesOnlyEnabled ==
    [][(/\ lastCall'.op = "_initialize_stations"
        /\ \A id \in StationIds : lastCall'.config[id] = "enabled"
                                      => stations[id].present)
       => /\ \A id \in StationIds :
                stations'[id] =
                    [stations[id] EXCEPT !.enabled =
                        @ \/ (stations[id].present /\ lastCall'.config[id] = "enabled")]
          /\ sensors' = sensors
          /\ measurements' = measurements]_vars

\* a disabled station with a watermark, sensors and measurements has just
\* been enabled by _initialize_stations
C24_Witness ==
    /\ lastCall.op = "_initialize_stations"
    /\ lastCall.config["st1"] = "enabled"
    /\ lastCall.requests = <<>>
    /\ stations["st1"].enabled
    /\ stations["st1"].last_updated # NoString
    /\ stations["st1"].metadata = Py("str", json_dumps(station_details))
    /\ sensors # <<>>
    /\ measurements # EmptyBag

\* C25: after a run in which every call of the API and of the store
\* succeeds, every configured station is in the store with the enabled flag
\* of its configuration, the stations configured as disabled included, and
\* every sensor the API lists for it is stored with that station as owner.
C25_ConfiguredStationsDiscovered ==
    (lastCall.op = "run" /\ lastCall.faults = {})
    => \A id \in StationIds :
          lastCall.config[id] # "absent"
          => /\ stations[id].present
             /\ stations[id].enabled = (lastCall.config[id] = "enabled")
             /\ \A s \in Entries(ApiSensors(id)) :
                    \/ [id |-> s, station_id |-> id] \in Entries(sensors)
                    \/ \E other \in StationIds \ {id} :
                          s \in Entries(ApiSensors(other))

\* the requests the step of _initialize_stations of the run just made sent:
\* its backfill fetches
BackfillRequests ==
    _initialize_stations(stations, sensors, measurements, lastCall'.config, now,
                         lastCall'.faults, provider).requests

\* the run just made stored station id and the API listed its sensors
Discovered(id) ==
    /\ ~stations[id].present
    /\ stations'[id].present
    /\ Fault("list_sensors", id) \notin lastCall'.faults

\* C26: in every run, a sensor gets one backfill fetch, of
\* [now - backfill_days, now], when the run stores its station and registers
\* it, and none when its station was stored by an earlier run, whether the
\* earlier backfill failed or not; a backfill that fails leaves the sensor and
\* the sensors after it registered and backfilled.
C26_BackfillOnce ==
    [][lastCall'.op = "run"
       => \A sent \in {BackfillRequests},
             registered \in {{sensors'[j].id : j \in 1..Len(sensors')}} :
              /\ Len(sent) <= Len(lastCall'.requests)
              /\ sent = SubSeq(lastCall'.requests, 1, Len(sent))
              /\ \A id \in StationIds, s \in SensorIds :
                    LET mine == {i \in 1..Len(sent) : /\ sent[i].station_id = id
                                                      /\ sent[i].sensor_id = s}
                    IN  /\ Cardinality(mine)
                              = IF Discovered(id) /\ s \in Entries(ApiSensors(id))
                                THEN 1 ELSE 0
                        /\ \A i \in mine :
                              /\ sent[i].date_from
                                    = [wall |-> now - backfill_days * 24, tz |-> "+00:00"]
                              /\ sent[i].date_to = [wall |-> now, tz |-> "+00:00"]
                        /\ (Discovered(id) /\ s \in Entries(ApiSensors(id)))
                              => s \in registered]_vars

\* a second run after one in which the backfill of sensor "a" was refused:
\* "a" and "b" are registered, and the run asks for "a" only from the sync
\* of its station, once
C26_Witness ==
    /\ lastCall.op = "run"
    /\ now = T0 + 1
    /\ lastCall.rowsBefore = 0
    /\ Fault("fetch_auth", "a") \in lastCall.faults
    /\ {"a", "b"} \subseteq {sensors[j].id : j \in 1..Len(sensors)}
    /\ stations["st1"].last_updated = NoString
    /\ Cardinality({i \in 1..Len(lastCall.requests) :
                        lastCall.requests[i].sensor_id = "a"}) = 1

\* C27: every HTTP request sent for a call of _request, the retries of the
\* wrapper and the re-sends of the transport included, carries the Date and
\* the signature the authenticator computes at the time it is sent, not the
\* headers of an earlier transmission.
C27_SignatureFresh ==
    lastCall.op = "_request"
    => \A i \in 1..Len(lastCall.progress.sends) :
          LET send == lastCall.progress.sends[i]
          IN  send.headers
                  = FieldClimateAuth("/" \o lstrip(lastCall.env.endpoint), public_key,
                                     private_key, send.method, send.sent)

\* the endpoint path of a request drawn, without host, base path or query
PathOf(endpoint) ==
    IF endpoint = "station/st1" THEN "/station/st1" ELSE "/station/st1/sensors"

\* C28 as stated: the signed message of every request sent is method + path +
\* timestamp, followed by the serialized body when the request has one, keyed
\* by the private key.
C28_MessageIsMethodPathTimestamp ==
    lastCall.op = "_request"
    => \A i \in 1..Len(lastCall.progress.sends) :
          LET send == lastCall.progress.sends[i]
          IN  send.headers.Authorization.signature
                  = hmac_new(private_key,
                             send.method \o PathOf(lastCall.env.endpoint)
                                 \o send.headers.Date \o send.data)

\* C28: the signed message of every request the client sends is method +
\* path + timestamp + public key, keyed by the private key, where the method
\* is in upper case, the path is the endpoint path without host, base path or
\* query string, the timestamp is the value of the Date header, and the body
\* is not part of it; generate_signature signs method + path + timestamp +
\* content with the key it is given.
C28_SignedMessage ==
    /\ lastCall.op = "_request"
       => \A i \in 1..Len(lastCall.progress.sends) :
             LET send == lastCall.progress.sends[i]
                 path == PathOf(lastCall.env.endpoint)
             IN  /\ send.method \in {"GET", "POST"}
                 /\ send.url = base_url \o path
                 /\ send.headers.Authorization.public_key = public_key
                 /\ send.headers.Authorization.signature
                        = hmac_new(private_key,
                                   send.method \o path \o send.headers.Date
                                       \o public_key)
    /\ lastCall.op = "generate_signature"
       => lastCall.signature
              = hmac_new(private_key,
                         lastCall.env.method \o lastCall.env.endpoint
                             \o ToString(lastCall.timestamp) \o lastCall.env.data)

\* a POST with query parameters and a body to an endpoint written with a
\* leading slash was sent
C28_Witness ==
    /\ lastCall.op = "_request"
    /\ lastCall.env.method = "post"
    /\ lastCall.env.endpoint = "/station/st1/sensors"
    /\ lastCall.env.params # ""
    /\ lastCall.env.data # ""
    /\ Len(lastCall.progress.sends) >= 2

\* every sensor row names a station row, every measurement row a sensor row
ReferencesResolve(stationTable, sensorTable, rows) ==
    /\ \A i \in 1..Len(sensorTable) :
          /\ sensorTable[i].station_id \in StationIds
          /\ stationTable[sensorTable[i].station_id].present
    /\ \A row \in BagToSet(rows) : SensorExists(sensorTable, row.sensor_id)

\* C29: every sensor row names an existing station row and every
\* measurement row an existing sensor row, in every state the store reaches;
\* add_sensor for a station that has no row, and add_measurements with a
\* row of a sensor that has no row, raise DatabaseError and store nothing.
C29_ReferentialIntegrity ==
    [][/\ ReferencesResolve(stations', sensors', measurements')
       /\ (/\ lastCall'.op = "add_sensor"
           /\ ~stations[lastCall'.sensor.station_id].present)
          => /\ lastCall'.raised
             /\ sensors' = sensors
       /\ (/\ lastCall'.op = "add_measurements"
           /\ \E i \in 1..Len(lastCall'.batch) :
                 ~SensorExists(sensors, lastCall'.batch[i].sensor_id))
          => /\ lastCall'.raised
             /\ measurements' = measurements]_vars

\* add_sensor for a station without a row has just raised, in a store that
\* holds a station, its sensor and measurements of it
C29_Witness ==
    /\ lastCall.op = "add_sensor"
    /\ lastCall.raised
    /\ ~stations[lastCall.sensor.station_id].present
    /\ sensors = <<[id |-> "a", station_id |-> "st1"]>>
    /\ measurements # EmptyBag

\* C30: add_station with any mapping or list as metadata, the empty mapping
\* included, stores the row, and get_station then returns the metadata value
\* that was passed in.
C30_MetadataRoundTrip ==
    (lastCall.op = "add_station" /\ lastCall.station.metadata.t \in {"dict", "list"})
    => /\ ~lastCall.raised
       /\ lastCall.returned.found
       /\ lastCall.returned.metadata = lastCall.station.metadata

\* the stations whose sync the run just made invoked: those whose sync
\* returned and those with a "Station ..." entry among the errors
Attempted ==
    {lastCall'.synced[i] : i \in 1..Len(lastCall'.synced)}
    \cup {lastCall'.stats.errors[i].id :
             i \in {j \in 1..Len(lastCall'.stats.errors) :
                       lastCall'.stats.errors[j].what = "Station"}}

\* the run just made got past _initialize_stations and the read of the list
\* of the enabled stations
ReachedLoop ==
    /\ lastCall'.op = "run"
    /\ \A i \in 1..Len(lastCall'.stats.errors) :
           lastCall'.stats.errors[i].what # "General"

\* C31: in a run that reaches its loop, the requests of
\* _initialize_stations all come before those of the syncs; the stations
\* whose sync is invoked are those the store holds as enabled after
\* _initialize_stations, the ones it stored in this run included, each once
\* and in the order of the list; the requests of one station's sync are not
\* interleaved with those of another; a station stored as disabled gets no
\* sync and no request.
C31_CoordinatorSequence ==
    [][ReachedLoop
       => \A sent \in {BackfillRequests}, attempted \in {Attempted},
             listed \in {get_all_stations_enabled(stations')} :
              LET all == lastCall'.requests
                  later == SubSeq(all, Len(sent) + 1, Len(all))
              IN  /\ Len(sent) <= Len(all)
                  /\ sent = SubSeq(all, 1, Len(sent))
                  /\ attempted = {listed[i] : i \in 1..Len(listed)}
                  /\ lastCall'.stats.stations_processed = Len(listed)
                  /\ lastCall'.synced
                        = SelectSeq(listed, LAMBDA id :
                                        Fault("read_station", id) \notin lastCall'.faults)
                  /\ \A id \in StationIds :
                        (~stations[id].present /\ stations'[id].present)
                           => id \in attempted
                  /\ \A i \in 1..Len(later) : later[i].station_id \in attempted
                  /\ \A i, j, k \in 1..Len(later) :
                        (i < j /\ j < k /\ later[i].station_id = later[k].station_id)
                           => later[j].station_id = later[i].station_id
                  /\ \A id \in StationIds :
                        (stations'[id].present /\ ~stations'[id].enabled)
                           => /\ id \notin attempted
                              /\ \A i \in 1..Len(all) : all[i].station_id # id]_vars

\* a run that stores st1 and st3 with three backfills and then syncs both
\* with three fetches, while st2, stored as disabled by process_new_station,
\* is left alone
C31_Witness ==
    /\ lastCall.op = "run"
    /\ lastCall.faults = {}
    /\ lastCall.synced = <<"st1", "st3">>
    /\ stations["st2"].present
    /\ ~stations["st2"].enabled
    /\ Len(lastCall.requests) = 6

\* C32: a call of _process_sensor_data that changes the watermark of the
\* station met no failure of the store, leaves every measurement of its
\* batch in the store and writes the timestamp of the last of them; a call
\* in which add_measurements (or the write of the watermark) raises leaves
\* the watermark as it was.
C32_InsertBeforeWatermark ==
    [][lastCall'.op = "_process_sensor_data"
       => \A batch \in {BuildMeasurements("a", lastCall'.points)} :
             /\ stations'["st1"].last_updated # stations["st1"].last_updated
                   => /\ ~lastCall'.fail
                      /\ ~lastCall'.raised
                      /\ batch # <<>>
                      /\ \A i \in 1..Len(batch) : HasTriple(measurements', batch[i])
                      /\ stations'["st1"].last_updated = batch[Len(batch)].timestamp
             /\ lastCall'.fail /\ batch # <<>>
                   => /\ lastCall'.raised
                      /\ stations' = stations]_vars

\* add_measurements refuses a batch (a measurement of it is not stored
\* afterwards) whose last point is not the one the watermark names: the
\* watermark written by an earlier call stays
C32_Witness ==
    /\ lastCall.op = "_process_sensor_data"
    /\ lastCall.fail
    /\ lastCall.raised
    /\ \E i \in 1..Len(BuildMeasurements("a", lastCall.points)) :
          ~HasTriple(measurements, BuildMeasurements("a", lastCall.points)[i])
    /\ BuildMeasurements("a", lastCall.points) # <<>>
    /\ stations["st1"].last_updated # NoString
    /\ stations["st1"].last_updated
          # WatermarkOf(BuildMeasurements("a", lastCall.points))

\* C33: a call of add_measurements that raises leaves the measurements, the
\* sensors and the stations as they were before the call, whichever row of
\* the batch the failure came at, and returns no count.
C33_FailedOperationStoresNothing ==
    [][(lastCall'.op = "add_measurements" /\ lastCall'.raised)
       => /\ measurements' = measurements
          /\ lastCall'.count = 0
          /\ stations' = stations
          /\ sensors' = sensors]_vars

\* add_measurements has raised at the second or a later row of a batch
\* whose first row, of a registered sensor, was not stored before: it is
\* not stored now
C33_Witness ==
    /\ lastCall.op = "add_measurements"
    /\ lastCall.raised
    /\ Len(lastCall.batch) >= 2
    /\ FailsAt(sensors, lastCall.batch, lastCall.fail) >= 2
    /\ ~HasTriple(measurements, lastCall.batch[1])

\* C34: after a run in which every call of the API and of the store
\* succeeds, a station that is configured as enabled and stored has its
\* sensors registered and its sync has returned a count for each of them,
\* also when the run that stored the station could not list its sensors.
C34_DiscoveryRecovers ==
    (/\ lastCall.op = "run"
     /\ lastCall.faults = {}
     /\ lastCall.config["st1"] = "enabled")
    => /\ stations["st1"].present
       /\ SeqIds(get_sensors_for_station(sensors, "st1")) = SeqSet(ApiSensors("st1"))
       /\ "st1" \in SeqSet(lastCall.synced)
       /\ lastCall.stats.sensors_processed >= Len(ApiSensors("st1"))

\* C35: a step that registers the sensors of new stations (a call of
\* process_new_station, or a run, whose _initialize_stations does so) leaves
\* get_sensors_for_station as it was for every station that was stored
\* before the step, also when the provider lists a sensor identifier for
\* two stations.
C35_SensorsOfOtherStationsKept ==
    [][lastCall'.op \in {"process_new_station", "run"}
       => \A id \in StationIds :
             stations[id].present
                => get_sensors_for_station(sensors', id)
                      = get_sensors_for_station(sensors, id)]_vars

\* C36: a call of _request, and a call of get_station_details (or
\* discover_sensors, discover_stations) of the manager, runs the body of
\* _request, and with it session.request, at most max_retries + 1 = 4 times
\* before it returns or raises.
C36_AttemptsBounded ==
    lastCall.op \in {"_request", "get_station_details"}
    => /\ lastCall.progress.invoked["request"] <= request_max_retries + 1
       /\ Len(lastCall.progress.exchanges) <= request_max_retries + 1

\* the sum of f over the set S
RECURSIVE Total(_, _)
Total(f, S) ==
    IF S = {} THEN 0
    ELSE LET x == CHOOSE y \in S : TRUE
         IN  f[x] + Total(f, S \ {x})

\* C37: in the statistics a run returns, stations_processed is
\* stations_successful + stations_failed and at most the number of stations
\* stored as enabled; stations_successful counts the stations whose sync
\* returned and stations_failed those recorded as "Station ..." errors, so
\* the errors are at least stations_failed; sensors_processed is the number
\* of sensors of the stations whose sync returned, and measurements_added is
\* at most the number of points the provider holds for those sensors.
C37_StatisticsConsistent ==
    lastCall.op = "run"
    => \A st \in {lastCall.stats}, ok \in {SeqSet(lastCall.synced)} :
          /\ st.stations_processed = st.stations_successful + st.stations_failed
          /\ st.stations_processed <= Len(get_all_stations_enabled(stations))
          /\ st.stations_successful = Len(lastCall.synced)
          /\ st.stations_successful = Cardinality(ok)
          /\ st.stations_failed
                = Cardinality({i \in 1..Len(st.errors) : st.errors[i].what = "Station"})
          /\ Len(st.errors) >= st.stations_failed
          /\ st.sensors_processed
                = Total([id \in StationIds |->
                            Len(get_sensors_for_station(sensors, id))], ok)
          /\ st.measurements_added
                <= Total([id \in StationIds |->
                             Total([s \in SensorIds |-> Cardinality(provider[s])],
                                   SeqIds(get_sensors_for_station(sensors, id)))], ok)

\* a run in which the sync of one station raised and that of another
\* returned measurements
C37_Witness ==
    /\ lastCall.op = "run"
    /\ lastCall.stats.stations_failed = 1
    /\ lastCall.stats.stations_successful >= 1
    /\ lastCall.stats.sensors_processed >= 1
    /\ lastCall.stats.measurements_added >= 1
====
